---- MODULE Spec2Model ----
(***************************************************************************)
(* Hierarchical multi-datacenter environment (drl-manager/gym_cloudsimplus) *)
(*                                                                         *)
(*   HierarchicalMultiDCEnv          core: reset/step/close, action masks   *)
(*   HierarchicalMultiDCParallelEnv  PettingZoo adapter over one core       *)
(*   JointTrainingEnv                joint-training adapter over one core   *)
(*                                                                         *)
(* Datacenter ids are 0-based as in the code.  numpy vectors are TLA+       *)
(* sequences, so the vector element v[i] of the code is v[i + 1] here.      *)
(* Python dicts are functions; a dict without a key is a function whose     *)
(* DOMAIN lacks it.  Rewards are integers (the sums of the code are then    *)
(* exact).                                                                  *)
(***************************************************************************)
EXTENDS Integers, Sequences, FiniteSets, TLC

VARIABLES
    env,        \* the HierarchicalMultiDCEnv instance (its fields)
    sim,        \* the simulator behind env's gateway
    last_call,  \* history: the latest call on env, what it sent and returned
    hist,       \* history: successful steps and reward sum of the episode
    pz,         \* a HierarchicalMultiDCParallelEnv and its own core
    pz_sim,     \* the simulator behind pz's core
    jt,         \* a JointTrainingEnv and its own core
    jt_sim,     \* the simulator behind jt's core
    pair_out,   \* history: what the latest call on pz and on jt sent and returned
    cls,        \* the class attributes of HierarchicalMultiDCEnv
    held,       \* an info['episode_reward'] the caller of jt has kept
    wind        \* the wind prediction wrapper, its last call and the queries of its service

vars == <<env, sim, last_call, hist, pz, pz_sim, jt, jt_sim, pair_out, cls, held, wind>>

(***************************************************************************)
(* Bounds of the model                                                     *)
(***************************************************************************)
MaxVms == 2        \* a datacenter is configured with 0..MaxVms VMs
MaxPes == 1        \* available PEs of a VM and PEs of a cloudlet: 0..MaxPes
MaxBatch == 2      \* the agent's global action list has 0..MaxBatch elements
MaxSteps == 2      \* simulation steps per simulator reset

num_datacenters == 2
DcIds == 0 .. (num_datacenters - 1)

None == "None"             \* Python's None, also an absent dict entry

\* self.last_observations before its first assignment (hasattr is False)
NoObservations == [attr |-> FALSE, local |-> <<>>]
WaitingValues == {0, 5}    \* waiting_cloudlets values of the simulator

Max(a, b) == IF a >= b THEN a ELSE b
Min(a, b) == IF a <= b THEN a ELSE b


\* s[:n] of Python for n >= 0
Take(s, n) == SubSeq(s, 1, Min(Len(s), n))

\* all sequences over S of length 0..n
SeqsUpTo(S, n) == UNION {[1 .. k -> S] : k \in 0 .. n}

(***************************************************************************)
(* Configuration: dc_vm_counts[d] is the sum of the S/M/L VM tallies of     *)
(* datacenter d, max_vms their maximum.                                     *)
(***************************************************************************)
Configs == [DcIds -> 0 .. MaxVms]

\* the configurations whose datacenters differ in size
MixedConfigs == {counts \in Configs : counts[0] < counts[num_datacenters - 1]}

\* datacenter d has d + 1 VMs
ScenarioConfig == [d \in DcIds |-> Min(d + 1, MaxVms)]

max_vms(counts) == CHOOSE m \in {counts[d] : d \in DcIds} :
                       \A d \in DcIds : counts[d] <= m

\* spaces.Discrete(max_vms + 1).n
local_action_space_n(counts) == max_vms(counts) + 1

get_dc_vm_count(counts, dc_id) ==
    IF dc_id \in DcIds THEN counts[dc_id] ELSE max_vms(counts)

(***************************************************************************)
(* Observations                                                            *)
(***************************************************************************)
\* a padding that puts the fill values in front of the values
pad_vector_front(values, target_len, fill_value) ==
    IF Len(values) >= target_len THEN SubSeq(values, 1, target_len)
    ELSE [i \in 1 .. target_len |->
             IF i <= target_len - Len(values) THEN fill_value
             ELSE values[i - (target_len - Len(values))]]

\* _pad_vector
pad_vector(values, target_len, fill_value) ==
    IF Len(values) = target_len THEN values
    ELSE IF Len(values) > target_len THEN SubSeq(values, 1, target_len)
    ELSE [i \in 1 .. target_len |->
             IF i <= Len(values) THEN values[i] ELSE fill_value]

\* raw is the simulator's ObservationState of datacenter dc_id
convert_local_observation(counts, dc_id, raw) ==
    LET vm_target == get_dc_vm_count(counts, dc_id)
        vm_available_pes == Take(raw.vm_available_pes, vm_target)
    IN  [vm_available_pes  |-> pad_vector(vm_available_pes, max_vms(counts), 0),
         waiting_cloudlets |-> raw.waiting_cloudlets,
         next_cloudlet_pes |-> raw.next_cloudlet_pes]

\* raw_local maps datacenter ids to ObservationStates; a datacenter the
\* simulator reports as None is one without an entry here
parse_local_observations(counts, raw_local) ==
    [d \in DcIds \cap DOMAIN raw_local |->
        convert_local_observation(counts, d, raw_local[d])]

(***************************************************************************)
(* Action masks.  A mask is a sequence of local_action_space.n booleans;    *)
(* mask index k of the code is element k + 1.                               *)
(***************************************************************************)
AllTrue(n) == [k \in 1 .. n |-> TRUE]

HasValidVm(local_obs, dc_vm_count) ==
    \E vm_idx \in 0 .. (Min(Len(local_obs.vm_available_pes), dc_vm_count) - 1) :
        local_obs.vm_available_pes[vm_idx + 1] >= local_obs.next_cloudlet_pes

\* Case 1 of get_local_action_masks: only NoAssign
MaskQueueEmpty(n) == [k \in 1 .. n |-> k = 1]

\* MaskValidVms with > for >= in the capacity test
MaskValidVmsStrict(local_obs, dc_vm_count, n) ==
    [k \in 1 .. n |->
        /\ k >= 2
        /\ k - 2 < Min(Len(local_obs.vm_available_pes), dc_vm_count)
        /\ local_obs.vm_available_pes[k - 1] > local_obs.next_cloudlet_pes]

\* MaskValidVms looping over the whole vector, its padding included
MaskValidVmsOverPadding(local_obs, dc_vm_count, n) ==
    [k \in 1 .. n |->
        /\ k >= 2
        /\ k - 2 < Len(local_obs.vm_available_pes)
        /\ local_obs.vm_available_pes[k - 1] >= local_obs.next_cloudlet_pes]

\* Case 2: the VMs with enough available PEs, NoAssign forbidden
MaskValidVms(local_obs, dc_vm_count, n) ==
    [k \in 1 .. n |->
        /\ k >= 2
        /\ k - 2 < Min(Len(local_obs.vm_available_pes), dc_vm_count)
        /\ local_obs.vm_available_pes[k - 1] >= local_obs.next_cloudlet_pes]

\* MaskFallbackAllVms with the slice mask[1:dc_vm_count]
MaskFallbackShort(dc_vm_count, n) ==
    [k \in 1 .. n |-> k >= 2 /\ k - 1 <= dc_vm_count - 1]

\* Case 3: mask[1:dc_vm_count+1] = True on the all-False mask
MaskFallbackAllVms(dc_vm_count, n) ==
    [k \in 1 .. n |-> k >= 2 /\ k - 1 <= dc_vm_count]

\* MaskFromObservation testing waiting_cloudlets alone in Case 1
MaskIgnoringNextPes(local_obs, dc_vm_count, n) ==
    IF local_obs.waiting_cloudlets = 0
    THEN MaskQueueEmpty(n)
    ELSE IF HasValidVm(local_obs, dc_vm_count)
         THEN MaskValidVms(local_obs, dc_vm_count, n)
         ELSE MaskFallbackAllVms(dc_vm_count, n)

\* MaskFromObservation leaving NoAssign allowed in Case 2
MaskKeepingNoAssign(local_obs, dc_vm_count, n) ==
    IF local_obs.waiting_cloudlets = 0 \/ local_obs.next_cloudlet_pes = 0
    THEN MaskQueueEmpty(n)
    ELSE IF HasValidVm(local_obs, dc_vm_count)
         THEN [k \in 1 .. n |-> k = 1 \/ MaskValidVms(local_obs, dc_vm_count, n)[k]]
         ELSE MaskFallbackAllVms(dc_vm_count, n)

MaskFromObservation(local_obs, dc_vm_count, n) ==
    IF local_obs.waiting_cloudlets = 0 \/ local_obs.next_cloudlet_pes = 0
    THEN MaskQueueEmpty(n)
    ELSE IF HasValidVm(local_obs, dc_vm_count)
         THEN MaskValidVms(local_obs, dc_vm_count, n)
         ELSE MaskFallbackAllVms(dc_vm_count, n)

\* self is a core instance
\* get_local_action_masks allowing NoAssign alone when it has no observation
get_local_action_masks_fail_closed(self, dc_id) ==
    LET n == local_action_space_n(self.dc_vm_counts) IN
    IF ~self.java_env \/ dc_id >= num_datacenters \/ dc_id < 0
    THEN AllTrue(n)
    ELSE IF ~self.last_observations.attr
    THEN MaskQueueEmpty(n)
    ELSE IF dc_id \notin DOMAIN self.last_observations.local
    THEN MaskQueueEmpty(n)
    ELSE MaskFromObservation(self.last_observations.local[dc_id],
                             get_dc_vm_count(self.dc_vm_counts, dc_id), n)

\* get_local_action_masks reading the observation of datacenter 0 when the
\* result holds one
get_local_action_masks_of_first(self, dc_id) ==
    LET n == local_action_space_n(self.dc_vm_counts) IN
    IF ~self.java_env \/ dc_id >= num_datacenters \/ dc_id < 0
    THEN AllTrue(n)
    ELSE IF ~self.last_observations.attr
    THEN AllTrue(n)
    ELSE IF dc_id \notin DOMAIN self.last_observations.local
    THEN AllTrue(n)
    ELSE MaskFromObservation(
            self.last_observations.local[
                IF 0 \in DOMAIN self.last_observations.local THEN 0 ELSE dc_id],
            get_dc_vm_count(self.dc_vm_counts, dc_id), n)

get_local_action_masks(self, dc_id) ==
    LET n == local_action_space_n(self.dc_vm_counts) IN
    IF ~self.java_env \/ dc_id >= num_datacenters \/ dc_id < 0
    THEN AllTrue(n)
    ELSE IF ~self.last_observations.attr
    THEN AllTrue(n)
    ELSE IF dc_id \notin DOMAIN self.last_observations.local
    THEN AllTrue(n)
    ELSE MaskFromObservation(self.last_observations.local[dc_id],
                             get_dc_vm_count(self.dc_vm_counts, dc_id), n)

(***************************************************************************)
(* The remote simulation engine, reached over the gateway.  It is an        *)
(* opaque deterministic service: what it returns is a function of the seed  *)
(* of its last reset and of the step payloads it received since.            *)
(***************************************************************************)
MaxQueue == MaxBatch + 1
Seeds == 0 .. MaxQueue

\* the seed argument of reset(); NoSeed stands for seed=None
NoSeed == 0 - 1
SeedArgs == Seeds \cup {NoSeed}

SimOff == [configured |-> FALSE, t |-> 0, queue |-> 0]

SimConfigure(s) == [s EXCEPT !.configured = TRUE]

\* the seed fixes the workload: here, how many cloudlets wait at the start
SimReset(s, seed) == [s EXCEPT !.t = 0, !.queue = seed % (MaxQueue + 1)]

\* getGlobalWaitingCloudletsCount()
SimWaitingCount(s) == s.queue

SimRawLocal(counts, s, d) ==
    [vm_available_pes  |-> [i \in 1 .. counts[d] |-> (s.queue + i + d) % (MaxPes + 1)],
     waiting_cloudlets |-> IF (s.queue + d) % 2 = 0 THEN 0 ELSE 5,
     next_cloudlet_pes |-> 1 + ((s.queue + d) % MaxPes)]

SimRawResult(counts, s) ==
    [global |-> [upcoming_cloudlets_count |-> s.queue],
     local  |-> [d \in DcIds |-> SimRawLocal(counts, s, d)]]

\* step(globalActions, localActions): the state after it and the rewards and flags
SimLeft(s, g) == Max(0, s.queue - Len(g))

SimStep(s, g, l) ==
    [s EXCEPT !.t = s.t + 1, !.queue = Min(MaxQueue, SimLeft(s, g) + 1)]

\* the cloudlets routed to datacenter 0
SimGlobalReward(s, g) == Cardinality({i \in 1 .. Len(g) : g[i] = 0})

SimLocalRewards(s, l) == [d \in DOMAIN l |-> l[d] + 1]

SimTerminated(s, g) == SimLeft(s, g) = 0

SimTruncated(s) == s.t + 1 >= MaxSteps

(***************************************************************************)
(* HierarchicalMultiDCEnv                                                  *)
(***************************************************************************)
max_retries == 5     \* config.get("gateway_max_retries", 5)

\* HierarchicalMultiDCEnv(config): gateway and java_env are TRUE when set
NewCore(counts) ==
    [dc_vm_counts |-> counts, gateway |-> FALSE, java_env |-> FALSE,
     current_step |-> 0, episode_reward |-> 0, done |-> FALSE,
     last_observations |-> NoObservations]

\* what one call did: the instance and simulator after it, the exception it
\* raised ("none" when it returned), the remote calls it issued in order,
\* the payload of its step RPC and its return value
Outcome(self, s, raised, calls, sent, ret) ==
    [self |-> self, sim |-> s, raised |-> raised, calls |-> calls,
     sent |-> sent, ret |-> ret]

(* One connection attempt of _connect_to_java:                              *)
(*   "ok"         JavaGateway(...) and the println test call succeed        *)
(*   "net_ctor"   JavaGateway(...) raises a network error                   *)
(*   "net_call"   the println test call raises a network error              *)
(*   "other_call" the println test call raises another exception            *)
AttemptOutcomes == {"ok", "net_ctor", "net_call", "other_call"}

Script(fails, net, last) == [k \in 1 .. max_retries |-> IF k <= fails THEN net ELSE last]

\* the scripts of the attempts: some attempts fail with a network error,
\* all in the constructor or all in the test call, then one succeeds
OkScripts ==
    {Script(fails, net, "ok") :
        fails \in 0 .. (max_retries - 1), net \in {"net_ctor", "net_call"}}

\* ... or then one fails with another exception, or all of them fail
FailingScripts ==
    {Script(fails, net, "other_call") :
        fails \in 0 .. max_retries, net \in {"net_ctor", "net_call"}}


\* connect_loop that tries once more after the last retry is used up
RECURSIVE connect_loop_one_more(_, _, _)
connect_loop_one_more(self, script, k) ==
    LET o == script[Min(k, max_retries)]
        withGateway == IF o = "net_ctor" THEN self ELSE [self EXCEPT !.gateway = TRUE]
    IN  CASE o = "ok" ->
               [self |-> [withGateway EXCEPT !.java_env = TRUE],
                raised |-> "none", attempts |-> k, sleeps |-> k - 1]
          [] o = "other_call" ->
               [self |-> withGateway, raised |-> "RuntimeError:unexpected",
                attempts |-> k, sleeps |-> k - 1]
          [] OTHER ->
               IF k = max_retries + 1
               THEN [self |-> withGateway, raised |-> "RuntimeError:connect",
                     attempts |-> k, sleeps |-> k - 1]
               ELSE connect_loop_one_more(withGateway, script, k + 1)

\* the retry loop from attempt number k on; attempts counts the attempts
\* made, sleeps the time.sleep(retry_delay) calls: one after each attempt
\* that failed with a network error and is followed by another attempt
RECURSIVE connect_loop(_, _, _)
connect_loop(self, script, k) ==
    IF k > max_retries
    THEN [self |-> self, raised |-> "none", attempts |-> k - 1, sleeps |-> k - 1]
    ELSE LET o == script[k]
             withGateway == IF o = "net_ctor" THEN self ELSE [self EXCEPT !.gateway = TRUE]
         IN  CASE o = "ok" ->
                    [self |-> [withGateway EXCEPT !.java_env = TRUE],
                     raised |-> "none", attempts |-> k, sleeps |-> k - 1]
               [] o = "other_call" ->
                    [self |-> withGateway, raised |-> "RuntimeError:unexpected",
                     attempts |-> k, sleeps |-> k - 1]
               [] OTHER ->
                    IF k = max_retries
                    THEN [self |-> withGateway, raised |-> "RuntimeError:connect",
                          attempts |-> k, sleeps |-> k - 1]
                    ELSE connect_loop(withGateway, script, k + 1)

\* the connection attempts _connect_to_java makes on self, in order, by
\* their outcomes, and the sleeps between them
connect_attempts(self, script) ==
    IF self.gateway
    THEN [made |-> <<>>, sleeps |-> 0]
    ELSE [made   |-> [k \in 1 .. connect_loop(self, script, 1).attempts |->
                        script[Min(k, max_retries)]],
          sleeps |-> connect_loop(self, script, 1).sleeps]

\* a cleanup that closes nothing and keeps both handles
cleanup_gateway_keeping(self) == self

\* _cleanup_gateway: closes the gateway and drops both handles
cleanup_gateway(self) ==
    IF self.gateway THEN [self EXCEPT !.gateway = FALSE, !.java_env = FALSE] ELSE self

connect_to_java(self, s, script, cfg_ok) ==
    IF self.gateway
    THEN Outcome(self, s, "none", <<>>, None, None)
    ELSE LET c == connect_loop(self, script, 1) IN
         IF c.raised # "none"
         THEN Outcome(c.self, s, c.raised, <<>>, None, c.attempts)
         ELSE IF ~c.self.java_env
         THEN Outcome(cleanup_gateway(c.self), s, "RuntimeError:configure", <<>>, None, c.attempts)
         ELSE IF ~cfg_ok
         THEN Outcome(cleanup_gateway(c.self), s, "RuntimeError:configure",
                      <<"configureSimulation">>, None, c.attempts)
         ELSE Outcome(c.self, SimConfigure(s), "none", <<"configureSimulation">>, None, c.attempts)

ResetFaults == {"ok", "rpc", "parse"}

reset(self, s, seed, script, cfg_ok, fault) ==
    LET c == connect_to_java(self, s, script, cfg_ok)
        seed0 == IF seed = NoSeed THEN 0 ELSE seed
        s1 == SimReset(c.sim, seed0)
        zeroed == [c.self EXCEPT !.current_step = 0, !.episode_reward = 0, !.done = FALSE]
        observations ==
            [attr   |-> TRUE,
             global |-> SimRawResult(self.dc_vm_counts, s1).global,
             local  |-> parse_local_observations(self.dc_vm_counts,
                                                 SimRawResult(self.dc_vm_counts, s1).local)]
    IN  IF c.raised # "none" THEN c
        ELSE IF ~c.self.java_env
        THEN Outcome(c.self, c.sim, "RuntimeError:reset", c.calls, None, None)
        ELSE IF fault = "rpc"
        THEN Outcome(c.self, c.sim, "RuntimeError:reset", c.calls \o <<"reset">>, None, None)
        ELSE IF fault = "parse"
        THEN Outcome(zeroed, s1, "RuntimeError:parse", c.calls \o <<"reset">>, None, None)
        ELSE Outcome([zeroed EXCEPT !.last_observations = observations], s1, "none",
                     c.calls \o <<"reset">>, None, observations)

close(self, s) ==
    LET calls == (IF self.java_env THEN <<"close">> ELSE <<>>)
        closed == IF self.gateway
                  THEN [self EXCEPT !.gateway = FALSE, !.java_env = FALSE]
                  ELSE self
    IN  Outcome(closed, s, "none", calls, None, None)

(* The action passed to step():                                             *)
(*   gk, lk   "list"/"dict" when 'global' is a list or array and 'local' a  *)
(*            dict, "other" when not                                        *)
(*   global   the list, each element as int() reads it                      *)
(*   g_bad    position (from 1) of an element int() rejects, 0 for none     *)
(*   local    the dict dc_id -> agent action                                *)
(*   l_bad    the dict holds a key or value int() rejects                   *)
Action(gk, g, g_bad, lk, l, l_bad) ==
    [gk |-> gk, global |-> g, g_bad |-> g_bad, lk |-> lk, local |-> l, l_bad |-> l_bad]

WellFormed(g, l) == Action("list", g, 0, "dict", l, FALSE)

\* global_actions[:num_available] when the list is longer
trim_global(global_actions, num_available) ==
    IF Len(global_actions) > num_available
    THEN SubSeq(global_actions, 1, num_available)
    ELSE global_actions

\* target_vm_id without the shift
target_vm_id_unshifted(agent_action) == agent_action

\* agent action -> Java targetVmId
target_vm_id(agent_action) == agent_action - 1

local_actions_java(local_actions_map) ==
    [dc_id \in DOMAIN local_actions_map |-> target_vm_id(local_actions_map[dc_id])]

parse_hierarchical_rewards(global_reward, local_rewards_java) ==
    [global |-> global_reward,
     local  |-> [dc_id \in DcIds |->
                    IF dc_id \in DOMAIN local_rewards_java
                    THEN local_rewards_java[dc_id] ELSE 0]]

\* update_episode_state that overwrites episode_reward instead of adding
update_episode_state_overwriting(self, rewards, terminated, truncated, observations) ==
    [self EXCEPT !.current_step = self.current_step + 1,
                 !.episode_reward = rewards.global,
                 !.done = terminated \/ truncated,
                 !.last_observations = observations]

\* the state update that ends a successful step()
update_episode_state(self, rewards, terminated, truncated, observations) ==
    [self EXCEPT !.current_step = self.current_step + 1,
                 !.episode_reward = self.episode_reward + rewards.global,
                 !.done = terminated \/ truncated,
                 !.last_observations = observations]

\* what goes wrong in the remote calls of one step(): nothing ("ok"),
\* getGlobalWaitingCloudletsCount() raises ("query"), the step RPC raises
\* ("rpc") or returns a result that cannot be parsed ("parse")
StepFaults == {"ok", "query", "rpc", "parse"}

\* a check that takes every instance for initialized
not_initialized_never(self) == FALSE

\* if self.java_env is None
not_initialized(self) == ~self.java_env

step(self, s, action, fault) ==
    IF not_initialized(self)
    THEN Outcome(self, s, "RuntimeError:uninitialized", <<>>, None, None)
    ELSE IF action.gk # "list" \/ action.lk # "dict"
    THEN Outcome(self, s, "ValueError", <<>>, None, None)
    ELSE
    LET num_available == IF fault = "query" THEN 0 ELSE SimWaitingCount(s)
        calls1 == <<"getGlobalWaitingCloudletsCount">>
        global_actions == trim_global(action.global, num_available)
        payload == [global |-> global_actions, local |-> local_actions_java(action.local)]
        s1 == SimStep(s, payload.global, payload.local)
        observations ==
            [attr   |-> TRUE,
             global |-> SimRawResult(self.dc_vm_counts, s1).global,
             local  |-> parse_local_observations(self.dc_vm_counts,
                                                 SimRawResult(self.dc_vm_counts, s1).local)]
        rewards == parse_hierarchical_rewards(SimGlobalReward(s, payload.global),
                                              SimLocalRewards(s, payload.local))
        terminated == SimTerminated(s, payload.global)
        truncated == SimTruncated(s)
        after == update_episode_state(self, rewards, terminated, truncated, observations)
    IN  IF action.l_bad
        THEN Outcome(self, s, "ValueError", calls1, None, None)
        ELSE IF action.g_bad \in 1 .. Len(global_actions)
        THEN Outcome(self, s, "ValueError:uncaught", calls1, None, None)
        ELSE IF fault = "rpc"
        THEN Outcome(self, s, "RuntimeError:step", calls1 \o <<"step">>, payload, None)
        ELSE IF fault = "parse"
        THEN Outcome(self, s1, "RuntimeError:parse", calls1 \o <<"step">>, payload, None)
        ELSE Outcome(after, s1, "none", calls1 \o <<"step">>, payload,
                     [observations |-> observations, rewards |-> rewards,
                      terminated |-> terminated, truncated |-> truncated])

(***************************************************************************)
(* Inputs                                                                  *)
(***************************************************************************)
GlobalLists == SeqsUpTo(DcIds, MaxBatch)

\* a local action for every datacenter, each in [0, vm_count]; or none at all
LocalMaps(counts) ==
    {l \in [DcIds -> 0 .. MaxVms] : \A d \in DcIds : l[d] <= counts[d]} \cup {<<>>}

WellFormedActions(counts) ==
    {WellFormed(g, l) : g \in GlobalLists, l \in LocalMaps(counts)}

\* routing decisions alone: no local action
RoutingActions == {WellFormed(g, <<>>) : g \in GlobalLists}

MalformedActions ==
    {Action("other", <<>>, 0, "dict", <<>>, FALSE),
     Action("list", <<>>, 0, "other", <<>>, FALSE),
     Action("list", <<>>, 0, "dict", <<>>, TRUE)}
    \cup {Action("list", g, b, "dict", <<>>, FALSE) : g \in GlobalLists, b \in 1 .. MaxBatch}



(***************************************************************************)
(* History variables.  Calls on one instance are strictly sequential: a     *)
(* call runs to its end, last_call holds what it did until the caller has   *)
(* taken the result (Return), and only then the next call starts.           *)
(***************************************************************************)
\* op: the call; n: the simulator's waiting count when it was made
Call(op, arg, n, o) ==
    [op |-> op, arg |-> arg, n |-> n, raised |-> o.raised, calls |-> o.calls,
     sent |-> o.sent, ret |-> o.ret]

NoCall == Call("idle", None, 0, Outcome(None, None, "none", <<>>, None, None))

Idle == last_call.op = "idle"

\* successful steps, the sum of their global rewards and the flags of the
\* latest one, counted from the last reset() whose reset RPC returned (rpc)
\* and from the last reset() that returned (ok)
Tally == [steps |-> 0, sum |-> 0, done |-> FALSE]

\* the connection the core holds: whether one is established, how often
\* configureSimulation was sent over it, and whether that call succeeded
NoConn == [open |-> FALSE, configures |-> 0, configured |-> FALSE]

ConfiguredConn == [open |-> TRUE, configures |-> 1, configured |-> TRUE]

\* the steps of the joint-training adapter that returned and the sums of
\* their rewards, counted from the last reset() that returned
JtTally == [steps |-> 0, global |-> 0, local |-> [d \in DcIds |-> 0]]

NoHist == [rpc |-> Tally, ok |-> Tally, conn |-> NoConn, jt |-> JtTally]

TallyStep(t, ret) ==
    [steps |-> t.steps + 1, sum |-> t.sum + ret.rewards.global,
     done |-> ret.terminated \/ ret.truncated]

HistAfterReset(h, o) ==
    [rpc |-> IF "reset" \in {o.calls[i] : i \in 1 .. Len(o.calls)}
                /\ o.raised # "RuntimeError:reset" THEN Tally ELSE h.rpc,
     ok  |-> IF o.raised = "none" THEN Tally ELSE h.ok,
     conn |-> h.conn, jt |-> h.jt]

HistAfterStep(h, o) ==
    IF o.raised # "none" THEN h
    ELSE [rpc |-> TallyStep(h.rpc, o.ret), ok |-> TallyStep(h.ok, o.ret),
          conn |-> h.conn, jt |-> h.jt]

JtTallyStep(t, rewards) ==
    [steps  |-> t.steps + 1,
     global |-> t.global + rewards.global,
     local  |-> [d \in DcIds |-> t.local[d] + rewards.local[d]]]

JtHistAfterReset(h, o) ==
    [h EXCEPT !.jt = IF o.raised = "none" THEN JtTally ELSE @]

JtHistAfterStep(h, o) ==
    IF o.raised # "none" THEN h
    ELSE [h EXCEPT !.jt = JtTallyStep(@, o.ret.rewards)]

\* the connection after a reset(): an attempt that succeeds establishes a
\* new one, each configureSimulation call is counted on it, and closing
\* the gateway ends it
ConnAfterReset(conn, connect, cfg_ok, o) ==
    LET n == Len(connect.made)
        established == n > 0 /\ connect.made[n] = "ok"
        c0 == IF established
              THEN [open |-> TRUE, configures |-> 0, configured |-> FALSE]
              ELSE conn
        sent == Cardinality({i \in 1 .. Len(o.calls) : o.calls[i] = "configureSimulation"})
        c1 == [c0 EXCEPT !.configures = @ + sent,
                         !.configured = @ \/ (sent > 0 /\ cfg_ok)]
    IN  IF o.self.gateway THEN c1 ELSE NoConn

ConnAfterClose(conn, o) == IF o.self.gateway THEN conn ELSE NoConn

(***************************************************************************)
(* Spec: one core instance through its lifecycle                            *)
(***************************************************************************)
NoAdapter == [base_env |-> None]
NoPair == [op |-> "idle"]

\* class HierarchicalMultiDCEnv: _java_gateway_closed = False
NewClass == [java_gateway_closed |-> FALSE]

(***************************************************************************)
(* Wind power prediction: CSVFeatureLoader and WindPredictionService       *)
(***************************************************************************)
history_length == 12       \* WindPredictionWrapper builds the service with 12
prediction_horizon == 8    \* prediction_horizon: int = 8

\* the turbine assigned to each datacenter
turbine_ids == [d \in DcIds |-> d + 1]

\* A simulation time is a float: time k stands for k/2 seconds.  NoTime is
\* current_sim_time = None, what the wrapper passes when the global
\* observation has no 'simulation_time' entry.
NoTime == 0 - 1
SimTimes == 0 .. (MaxSteps + 1)

\* int(simulation_time)
int_of_time(simulation_time) == simulation_time \div 2

\* the trace of a turbine with len rows: one feature value for each row
turbine_rows(turbine_id, len) == [i \in 1 .. len |-> (turbine_id + i) % 3]

\* the traces _load_all_csvs() has loaded: a turbine whose file is missing or
\* unreadable has no entry in turbine_data
TraceLengths == {0, history_length, history_length + MaxSteps}
Loaders ==
    {[csv_start_offset |-> offset, turbine_data |-> data] :
        offset \in {history_length - 2, history_length},
        data \in UNION {[S -> TraceLengths] : S \in SUBSET {turbine_ids[d] : d \in DcIds}}}

\* None when raised is "none" and ok is FALSE
NoFeatures(raised) == [raised |-> raised, ok |-> FALSE, features |-> <<>>]

sim_time_to_csv_index(loader, simulation_time) ==
    int_of_time(simulation_time) + loader.csv_start_offset

get_historical_features(loader, turbine_id, current_sim_time, lookback_steps) ==
    IF turbine_id \notin DOMAIN loader.turbine_data
    THEN NoFeatures("none")
    ELSE IF current_sim_time = NoTime
    THEN NoFeatures("TypeError")                \* int(None)
    ELSE
    LET df == turbine_rows(turbine_id, loader.turbine_data[turbine_id])
        current_idx == sim_time_to_csv_index(loader, current_sim_time)
        start_idx == current_idx - lookback_steps + 1
        features == SubSeq(df, start_idx + 1, current_idx + 1)
    IN  IF start_idx < 0
        THEN NoFeatures("none")
        ELSE IF current_idx >= Len(df)
        THEN NoFeatures("none")
        ELSE IF Len(features) # lookback_steps
        THEN NoFeatures("none")
        ELSE [raised |-> "none", ok |-> TRUE, features |-> features]

\* scalers[feat_name].transform of one value
scaler_transform(value) == value + 1

\* the frames hold the normalised features at the turbine's grid position
frames_of(features) ==
    IF features.raised # "none" \/ ~features.ok
    THEN features
    ELSE [features EXCEPT
            !.features = [t \in 1 .. history_length |->
                             scaler_transform(features.features[t])]]

create_prediction_frames(self, turbine_id, current_time) ==
    frames_of(get_historical_features(self.feature_loader, turbine_id,
                                      current_time, history_length))

\* the forecasting model: horizon values in kW at the turbine's position
predict_from_frames(frames, horizon) ==
    [k \in 1 .. horizon |-> 1 + ((frames[1] + frames[Len(frames)] + k) % 3)]

NewService(feature_loader) ==
    [feature_loader    |-> feature_loader,
     cache_predictions |-> TRUE,
     prediction_cache  |-> <<>>,
     current_step      |-> 0]

zero_row == [k \in 1 .. prediction_horizon |-> 0]

\* loaded: get_historical_features ran; called: the model ran
Forecast(self, ret, loaded, called) ==
    [self |-> self, raised |-> "none", ret |-> ret, loaded |-> loaded, called |-> called]

\* except Exception: the error is logged and zeros are returned
Failed(self, raised, loaded, called) ==
    [Forecast(self, zero_row, loaded, called) EXCEPT !.raised = raised]

except_Exception_uncaught(raised) == raised
except_Exception(raised) == "none"

cache_put(cache, dc_id, entry) ==
    [d \in DOMAIN cache \cup {dc_id} |-> IF d = dc_id THEN entry ELSE cache[d]]

\* fault "model": predict_from_frames or the lookup of the turbine's
\* position raises
forecast_of_frames(self, dc_id, frames, fault) ==
    LET predictions_kw == predict_from_frames(frames.features, prediction_horizon)
        turbine_predictions_w ==
            [k \in 1 .. prediction_horizon |-> predictions_kw[k] * 1000]
        cached == self.cache_predictions
                    /\ dc_id \in DOMAIN self.prediction_cache
                    /\ self.prediction_cache[dc_id].step = self.current_step
    IN  IF cached
        THEN Forecast(self, self.prediction_cache[dc_id].predictions, FALSE, FALSE)
        ELSE IF frames.raised # "none"
        THEN Failed(self, except_Exception(frames.raised), TRUE, FALSE)
        ELSE IF ~frames.ok
        THEN Forecast(self, zero_row, TRUE, FALSE)
        ELSE IF fault = "model"
        THEN Failed(self, except_Exception("RuntimeError:model"), TRUE, TRUE)
        ELSE Forecast(IF self.cache_predictions
                      THEN [self EXCEPT !.prediction_cache =
                               cache_put(@, dc_id,
                                         [step |-> self.current_step,
                                          predictions |-> turbine_predictions_w])]
                      ELSE self,
                      turbine_predictions_w, TRUE, TRUE)

predict_future_power(self, dc_id, current_time, fault) ==
    forecast_of_frames(self, dc_id,
                       create_prediction_frames(self, turbine_ids[dc_id], current_time),
                       fault)

\* predictions[dc_id] = the row r.ret
with_row(done, dc_id, r) ==
    [self   |-> r.self,
     raised |-> r.raised,
     ret    |-> [done.ret EXCEPT ![dc_id] = r.ret],
     loaded |-> [done.loaded EXCEPT ![dc_id] = r.loaded],
     called |-> [done.called EXCEPT ![dc_id] = r.called]]

\* for dc_id in range(self.num_datacenters), from dc_id on
RECURSIVE predict_from(_, _, _, _)
predict_from(dc_id, current_time, faults, done) ==
    IF dc_id = num_datacenters \/ done.raised # "none"
    THEN done
    ELSE predict_from(dc_id + 1, current_time, faults,
                      with_row(done, dc_id,
                               predict_future_power(done.self, dc_id, current_time,
                                                    faults[dc_id])))

predict_all_datacenters(self, current_time, faults) ==
    predict_from(0, current_time, faults,
                 Forecast(self, [d \in DcIds |-> zero_row],
                          [d \in DcIds |-> FALSE], [d \in DcIds |-> FALSE]))

service_step(self) ==
    [self EXCEPT !.current_step = self.current_step + 1,
                 !.prediction_cache = IF self.cache_predictions THEN <<>> ELSE @]

service_reset(self) ==
    [self EXCEPT !.prediction_cache = <<>>, !.current_step = 0]

NoFaults == [d \in DcIds |-> "ok"]
\* the model fails for no datacenter, or for the first one
ModelFaults == {NoFaults, [d \in DcIds |-> IF d = 0 THEN "model" ELSE "ok"]}

(***************************************************************************)
(* WindPredictionWrapper                                                   *)
(***************************************************************************)
NewWrapper(feature_loader) ==
    [prediction_service |-> NewService(feature_loader),
     step_count         |-> 0,
     prediction_count   |-> 0]

with_entry(dict, key, value) ==
    [k \in DOMAIN dict \cup {key} |-> IF k = key THEN value ELSE dict[k]]

\* the global observation of an environment that reports its clock
with_simulation_time(obs, clock) ==
    IF clock = NoTime
    THEN obs
    ELSE [obs EXCEPT !.global = with_entry(obs.global, "simulation_time", clock)]

simulation_time_of(obs) ==
    IF "simulation_time" \in DOMAIN obs.global
    THEN obs.global.simulation_time
    ELSE NoTime

\* obs['global']['dc_predicted_green_power_w'] = predictions
with_predictions(obs, predictions) ==
    [obs EXCEPT !.global =
        with_entry(obs.global, "dc_predicted_green_power_w", predictions)]

\* the wrapper and the observation once the service has answered with all
predicted(self, obs, all) ==
    IF all.raised # "none"
    THEN [self |-> [self EXCEPT !.prediction_service = all.self],
          raised |-> all.raised, obs |-> None]
    ELSE [self |-> [self EXCEPT !.prediction_service = all.self,
                                !.prediction_count = self.prediction_count + 1],
          raised |-> "none", obs |-> with_predictions(obs, all.ret)]

add_predictions_to_obs(self, obs, initialize, faults) ==
    IF "global" \notin DOMAIN obs
    THEN [self |-> self, raised |-> "none", obs |-> obs]
    ELSE IF initialize
    THEN [self |-> self, raised |-> "none",
          obs |-> with_predictions(obs, [d \in DcIds |-> zero_row])]
    ELSE predicted(self, obs,
                   predict_all_datacenters(self.prediction_service,
                                           simulation_time_of(obs), faults))

\* reset() and step() of the wrapper, given what the wrapped environment's
\* call gave: o is the outcome of the core's reset() or step()
wrapper_reset(self, o) ==
    IF o.raised # "none"
    THEN [self |-> self, raised |-> o.raised, obs |-> None]
    ELSE add_predictions_to_obs(
             [self EXCEPT !.prediction_service = service_reset(self.prediction_service),
                          !.step_count = 0,
                          !.prediction_count = 0],
             o.ret, TRUE, NoFaults)

\* self.prediction_service.step() and self.step_count += 1, once the
\* predictions are in the observation
stepped(added) ==
    IF added.raised # "none"
    THEN added
    ELSE [added EXCEPT !.self.prediction_service = service_step(@),
                       !.self.step_count = @ + 1]

wrapper_step(self, o, clock, faults) ==
    IF o.raised # "none"
    THEN [self |-> self, raised |-> o.raised, obs |-> None]
    ELSE stepped(add_predictions_to_obs(
                     self, with_simulation_time(o.ret.observations, clock),
                     FALSE, faults))

\* no wrapper built; the tally of the forecasts asked of the service at its
\* current step index: asked[d] queries for datacenter d at time clock, of
\* which loads[d] ran the feature load and calls[d] the model, with the
\* results answers[d]
NoTally ==
    [clock   |-> NoTime,
     asked   |-> [d \in DcIds |-> 0],
     loads   |-> [d \in DcIds |-> 0],
     calls   |-> [d \in DcIds |-> 0],
     answers |-> [d \in DcIds |-> {}]]
NoWindOut == [op |-> "idle"]
NoWind == [wrapper |-> None, out |-> NoWindOut, tally |-> NoTally]

\* no info kept.  A kept info['episode_reward'] is the dict that
\* self.episode_reward.copy() made: returned is what it held when step()
\* returned it, now what the caller reads in it, shares whether its 'local'
\* entry is the very dict self.episode_reward['local'] still refers to
NoHeld ==
    [taken |-> FALSE, shares |-> FALSE,
     returned |-> [global |-> 0, local |-> [i \in DcIds |-> 0]],
     now      |-> [global |-> 0, local |-> [i \in DcIds |-> 0]]]

\* what the calls on one core leave alone: the adapters and the class
adapterVars == <<pz, pz_sim, jt, jt_sim, pair_out, cls, held, wind>>

Init ==
    /\ env = NewCore(ScenarioConfig)
    /\ sim = SimOff
    /\ last_call = NoCall
    /\ hist = NoHist
    /\ pz = NoAdapter /\ pz_sim = SimOff
    /\ jt = NoAdapter /\ jt_sim = SimOff
    /\ pair_out = NoPair
    /\ cls = NewClass
    /\ held = NoHeld
    /\ wind = NoWind

Reset(seed, script, cfg_ok, fault) ==
    LET o == reset(env, sim, seed, script, cfg_ok, fault) IN
    /\ Idle
    /\ env' = o.self
    /\ sim' = o.sim
    /\ last_call' = Call("reset",
                         [seed |-> seed, connect |-> connect_attempts(env, script)],
                         SimWaitingCount(sim), o)
    /\ hist' = [HistAfterReset(hist, o) EXCEPT
                    !.conn = ConnAfterReset(hist.conn, connect_attempts(env, script),
                                            cfg_ok, o)]
    /\ UNCHANGED adapterVars

Step(action, fault) ==
    LET o == step(env, sim, action, fault) IN
    /\ Idle
    /\ sim.t < MaxSteps /\ hist.ok.steps < MaxSteps
    /\ env' = o.self
    /\ sim' = o.sim
    /\ last_call' = Call("step", [action |-> action, fault |-> fault],
                         SimWaitingCount(sim), o)
    /\ hist' = HistAfterStep(hist, o)
    /\ UNCHANGED adapterVars

Close ==
    LET o == close(env, sim) IN
    /\ Idle
    /\ env' = o.self
    /\ sim' = o.sim
    /\ last_call' = Call("close", None, SimWaitingCount(sim), o)
    /\ hist' = [hist EXCEPT !.conn = ConnAfterClose(hist.conn, o)]
    /\ UNCHANGED adapterVars

MaskQuery(dc_id) ==
    /\ Idle
    /\ last_call' = Call("mask", dc_id, SimWaitingCount(sim),
                         Outcome(env, sim, "none", <<>>, None,
                                 get_local_action_masks(env, dc_id)))
    /\ UNCHANGED <<env, sim, hist, adapterVars>>

Return ==
    /\ ~Idle
    /\ last_call' = NoCall
    /\ UNCHANGED <<env, sim, hist, adapterVars>>

\* reset() by how far it gets: the connection fails, configure fails, or
\* the reset RPC is issued
Next ==
    \/ \E script \in FailingScripts : Reset(NoSeed, script, TRUE, "ok")
    \/ \E script \in OkScripts : Reset(NoSeed, script, FALSE, "ok")
    \/ \E seed \in SeedArgs, script \in OkScripts, fault \in ResetFaults :
          Reset(seed, script, TRUE, fault)
    \/ \E action \in RoutingActions, fault \in StepFaults : Step(action, fault)
    \/ Close
    \/ \E dc_id \in -1 .. num_datacenters : MaskQuery(dc_id)
    \/ Return

Spec == Init /\ [][Next]_vars

(***************************************************************************)
(* SpecStep: step() with every action, on a core that reset() has          *)
(* connected, for every configuration of mixed sizes and every seed         *)
(***************************************************************************)
ResetDone(counts, seed) ==
    reset(NewCore(counts), SimOff, seed, Script(0, "net_call", "ok"), TRUE, "ok")

InitStep ==
    /\ \E counts \in MixedConfigs, seed \in Seeds :
          /\ env = ResetDone(counts, seed).self
          /\ sim = ResetDone(counts, seed).sim
    /\ last_call = NoCall
    /\ hist = [NoHist EXCEPT !.conn = ConfiguredConn]
    /\ pz = NoAdapter /\ pz_sim = SimOff
    /\ jt = NoAdapter /\ jt_sim = SimOff
    /\ pair_out = NoPair
    /\ cls = NewClass
    /\ held = NoHeld
    /\ wind = NoWind

NextStep ==
    \/ \E action \in WellFormedActions(env.dc_vm_counts) \cup MalformedActions,
          fault \in StepFaults : Step(action, fault)
    \/ Return

SpecStep == InitStep /\ [][NextStep]_vars

(***************************************************************************)
(* SpecMask: mask queries on a core holding any observation the simulator   *)
(* can have returned for its configuration                                  *)
(***************************************************************************)
RawLocalObservations(k) ==
    [vm_available_pes : [1 .. k -> 0 .. MaxPes],
     waiting_cloudlets : WaitingValues,
     next_cloudlet_pes : 0 .. MaxPes]

\* two observations of a datacenter with k VMs: nothing to do, and a job of
\* MaxPes PEs waiting for VMs that are all free
BackgroundObservations(k) ==
    {[vm_available_pes |-> [i \in 1 .. k |-> 0], waiting_cloudlets |-> 0,
      next_cloudlet_pes |-> 0],
     [vm_available_pes |-> [i \in 1 .. k |-> MaxPes], waiting_cloudlets |-> 5,
      next_cloudlet_pes |-> MaxPes]}

\* the results that hold the datacenters D: any observation for one of the
\* datacenters (focus), a background observation for each of the others
RawLocalMaps(counts) ==
    UNION {UNION {{m \in [D -> UNION {RawLocalObservations(k) : k \in 0 .. MaxVms}] :
                       \A d \in D :
                           /\ Len(m[d].vm_available_pes) = counts[d]
                           /\ d # focus => m[d] \in BackgroundObservations(counts[d])} :
                  focus \in DcIds} :
           D \in SUBSET DcIds}

\* a core after a reset() that returned, for any result of the simulator
CoreAfterReset(counts, raw) ==
    [NewCore(counts) EXCEPT
        !.gateway = TRUE, !.java_env = TRUE,
        !.last_observations =
            [attr |-> TRUE, global |-> [upcoming_cloudlets_count |-> 0],
             local |-> parse_local_observations(counts, raw)]]

CoresAfterReset ==
    UNION {{CoreAfterReset(counts, raw) : raw \in RawLocalMaps(counts)} :
           counts \in Configs}

\* a core whose first reset() connected and then failed in the reset RPC
CoresWithoutObservation ==
    {[NewCore(counts) EXCEPT !.gateway = TRUE, !.java_env = TRUE] : counts \in Configs}

InitMask ==
    /\ env \in CoresAfterReset \cup CoresWithoutObservation
    /\ sim = SimConfigure(SimOff)
    /\ last_call = NoCall
    /\ hist = [NoHist EXCEPT !.conn = IF env.gateway THEN ConfiguredConn ELSE NoConn]
    /\ pz = NoAdapter /\ pz_sim = SimOff
    /\ jt = NoAdapter /\ jt_sim = SimOff
    /\ pair_out = NoPair
    /\ cls = NewClass
    /\ held = NoHeld
    /\ wind = NoWind

NextMask ==
    \/ \E dc_id \in -1 .. num_datacenters : MaskQuery(dc_id)
    \/ Close
    \/ Return

SpecMask == InitMask /\ [][NextMask]_vars

(***************************************************************************)
(* Claims on the action masks (SpecMask)                                   *)
(***************************************************************************)
MaskReturned == last_call.op = "mask"

\* the datacenter of the latest mask query has a cached local observation
MaskOfCached ==
    /\ MaskReturned
    /\ last_call.arg \in DcIds
    /\ env.last_observations.attr
    /\ last_call.arg \in DOMAIN env.last_observations.local

QueriedObs == env.last_observations.local[last_call.arg]
QueriedVmCount == env.dc_vm_counts[last_call.arg]

QueueEmpty(o) == o.waiting_cloudlets = 0 \/ o.next_cloudlet_pes = 0
JobWaiting(o) == o.waiting_cloudlets > 0 /\ o.next_cloudlet_pes > 0
Fits(o, i) == o.vm_available_pes[i + 1] >= o.next_cloudlet_pes
SomeVmFits(o, vm_count) == \E i \in 0 .. (vm_count - 1) : Fits(o, i)

\* mask index k of the code
MaskAt(k) == last_call.ret[k + 1]
MaskIndices == 0 .. (Len(last_call.ret) - 1)

OnlyNoAssign == \A k \in MaskIndices : MaskAt(k) = (k = 0)

\* C5 as stated: whenever the cached observation has waiting_cloudlets = 0
\* or next_cloudlet_pes = 0, the mask is [True, False, ..., False].
C5_AsStated == (MaskOfCached /\ QueueEmpty(QueriedObs)) => OnlyNoAssign

\* C5 amended: on a core that is connected (java_env set), whenever the
\* cached observation has waiting_cloudlets = 0 or next_cloudlet_pes = 0, the
\* mask is [True, False, ..., False] whatever the available PEs are.
C5_EmptyQueueMask ==
    (MaskOfCached /\ env.java_env /\ QueueEmpty(QueriedObs)) => OnlyNoAssign

C5_Witness ==
    /\ MaskOfCached /\ env.java_env
    /\ QueriedObs.waiting_cloudlets = 0
    /\ QueriedVmCount = 2
    /\ \E i \in 0 .. 1 : QueriedObs.vm_available_pes[i + 1] > 0
    /\ last_call.ret = <<TRUE, FALSE, FALSE>>

\* C6 as stated: whenever a job is waiting, mask index 0 is False.
C6_AsStated == (MaskOfCached /\ JobWaiting(QueriedObs)) => ~MaskAt(0)

\* C6 amended: on a connected core, whenever the cached observation has a
\* job waiting (waiting_cloudlets > 0 and next_cloudlet_pes > 0), mask index 0
\* is False, whatever the VM capacities are.
C6_NoAssignForbidden ==
    (MaskOfCached /\ env.java_env /\ JobWaiting(QueriedObs)) => ~MaskAt(0)

C6_Witness ==
    /\ MaskOfCached /\ env.java_env /\ JobWaiting(QueriedObs)
    /\ SomeVmFits(QueriedObs, QueriedVmCount)
    /\ ~MaskAt(0)

\* C7 as stated: when a job is waiting and some VM fits it, mask index i + 1
\* is True exactly for the VMs i with vm_available_pes[i] >= next_cloudlet_pes.
C7_AsStated ==
    (MaskOfCached /\ JobWaiting(QueriedObs) /\ SomeVmFits(QueriedObs, QueriedVmCount))
        => \A i \in 0 .. (QueriedVmCount - 1) : MaskAt(i + 1) = Fits(QueriedObs, i)

\* C7 amended: on a connected core, when a job is waiting and some VM of the
\* datacenter fits it, mask index i + 1 is True exactly for the VMs i in
\* [0, vm_count) with vm_available_pes[i] >= next_cloudlet_pes.
C7_FittingVms ==
    (/\ MaskOfCached /\ env.java_env /\ JobWaiting(QueriedObs)
     /\ SomeVmFits(QueriedObs, QueriedVmCount))
        => \A i \in 0 .. (QueriedVmCount - 1) : MaskAt(i + 1) = Fits(QueriedObs, i)

\* next_cloudlet_pes = p with available PEs [p, p - 1] gives [False, True, False]
C7_Witness ==
    /\ MaskOfCached /\ env.java_env /\ JobWaiting(QueriedObs)
    /\ QueriedVmCount = 2
    /\ Fits(QueriedObs, 0) /\ ~Fits(QueriedObs, 1)
    /\ last_call.ret = <<FALSE, TRUE, FALSE>>

\* C8 as stated: when a job is waiting and no VM fits it, every index
\* 1..vm_count is True and index 0 is False.
C8_AsStated ==
    (MaskOfCached /\ JobWaiting(QueriedObs) /\ ~SomeVmFits(QueriedObs, QueriedVmCount))
        => /\ ~MaskAt(0)
           /\ \A k \in 1 .. QueriedVmCount : MaskAt(k)

\* C8 amended: on a connected core, when a job is waiting and no VM of the
\* datacenter fits it, every mask index 1..vm_count is True and index 0 is
\* False.
C8_FallbackAllVms ==
    (/\ MaskOfCached /\ env.java_env /\ JobWaiting(QueriedObs)
     /\ ~SomeVmFits(QueriedObs, QueriedVmCount))
        => /\ ~MaskAt(0)
           /\ \A k \in 1 .. QueriedVmCount : MaskAt(k)

\* two VMs, neither with the PEs of the next cloudlet: [False, True, True]
C8_Witness ==
    /\ MaskOfCached /\ env.java_env /\ JobWaiting(QueriedObs)
    /\ QueriedVmCount = 2
    /\ ~SomeVmFits(QueriedObs, QueriedVmCount)
    /\ last_call.ret = <<FALSE, TRUE, TRUE>>

\* C9: whenever the cached observation of a datacenter has a job waiting, the
\* mask returned for it has at least one True entry.
C9_SomeActionLegal ==
    (MaskOfCached /\ JobWaiting(QueriedObs)) => \E k \in MaskIndices : MaskAt(k)

(***************************************************************************)
(* Claims on step() and on the episode state                               *)
(***************************************************************************)
\* the latest call is a step() that sent its payload to the simulator
StepSent == last_call.op = "step" /\ Len(last_call.calls) = 2

StepReturned == last_call.op = "step" /\ last_call.raised = "none"

AgentGlobal == last_call.arg.action.global
AgentLocal == last_call.arg.action.local

\* C2: the global list step() forwards is the prefix of the agent's list of
\* length min(len(list), n), n being the simulator's waiting count when the
\* step was made; a list of length n is forwarded unchanged.
C2_PrefixOfWaitingCount ==
    StepSent =>
        /\ last_call.sent.global = Take(AgentGlobal, Min(Len(AgentGlobal), last_call.n))
        /\ (Len(AgentGlobal) = last_call.n => last_call.sent.global = AgentGlobal)

\* C3: for every datacenter and agent action a in [0, vm_count] step()
\* forwards the target VM id a - 1, and a |-> a - 1 maps [0, vm_count] one to
\* one onto [-1, vm_count - 1], 0 going to -1 and vm_count to vm_count - 1.
C3_LocalRemap ==
    StepSent =>
        /\ DOMAIN last_call.sent.local = DOMAIN AgentLocal
        /\ \A d \in DOMAIN AgentLocal : last_call.sent.local[d] = AgentLocal[d] - 1
        /\ \A d \in DcIds :
              LET vm_count == env.dc_vm_counts[d] IN
              /\ {target_vm_id(a) : a \in 0 .. vm_count} = (0 - 1) .. (vm_count - 1)
              /\ \A a, b \in 0 .. vm_count :
                    target_vm_id(a) = target_vm_id(b) => a = b
              /\ target_vm_id(0) = 0 - 1
              /\ target_vm_id(vm_count) = vm_count - 1

\* datacenter 0 told not to assign, the last datacenter given its last VM
C3_Witness ==
    /\ StepSent
    /\ DOMAIN AgentLocal = DcIds
    /\ AgentLocal[0] = 0 /\ last_call.sent.local[0] = 0 - 1
    /\ AgentLocal[num_datacenters - 1] = env.dc_vm_counts[num_datacenters - 1]
    /\ last_call.sent.local[num_datacenters - 1] = env.dc_vm_counts[num_datacenters - 1] - 1
    /\ env.dc_vm_counts[num_datacenters - 1] = MaxVms

EpisodeState == <<env.current_step, env.episode_reward, env.done>>
EpisodeOf(t) == <<t.steps, t.sum, t.done>>

\* a call that must not touch the episode state ends in the next state
LeavesEpisodeState ==
    /\ Idle
    /\ \/ last_call'.op \in {"mask", "close"}
       \/ last_call'.op = "step" /\ last_call'.raised # "none"

\* C4 as stated: the three fields tally the successful steps since the last
\* reset() that returned.
C4_AsStated == EpisodeState = EpisodeOf(hist.ok)

\* C4 amended: the three fields tally the successful steps since the last
\* reset() whose reset RPC returned, that reset() having returned or not;
\* a step() that raises, a mask query and close() leave them unchanged.
C4_EpisodeState ==
    /\ [](EpisodeState = EpisodeOf(hist.rpc))
    /\ [][LeavesEpisodeState => UNCHANGED EpisodeState]_vars

C4_Witness ==
    /\ StepReturned
    /\ env.current_step = 2 /\ hist.rpc.steps = 2
    /\ env.episode_reward > 1
    /\ env.done

(***************************************************************************)
(* The PettingZoo adapter (HierarchicalMultiDCParallelEnv)                  *)
(***************************************************************************)
global_agent == <<"global_agent">>
local_agent(i) == <<"local_agent", i>>

possible_agents == {global_agent} \cup {local_agent(i) : i \in DcIds}

\* action_space(local_agent_i).n
pz_action_space_n(counts, i) == get_dc_vm_count(counts, i) + 1

NoFlatObservations == [attr |-> FALSE, global |-> None, agents |-> <<>>]

NewPz(counts) == [base_env |-> NewCore(counts), last_observations |-> NoFlatObservations]

\* base_env is the core after the call that produced hierarchical_obs
hierarchical_to_flat_observations(base_env, hierarchical_obs) ==
    [attr   |-> TRUE,
     global |-> hierarchical_obs.global,
     agents |-> [a \in {local_agent(d) : d \in DOMAIN hierarchical_obs.local} |->
        LET dc_id == a[2]
            local_obs == hierarchical_obs.local[dc_id]
            dc_vm_count == get_dc_vm_count(base_env.dc_vm_counts, dc_id)
        IN  [observation |->
                [vm_available_pes  |-> Take(local_obs.vm_available_pes, dc_vm_count),
                 waiting_cloudlets |-> local_obs.waiting_cloudlets,
                 next_cloudlet_pes |-> local_obs.next_cloudlet_pes],
             action_mask |-> Take(get_local_action_masks(base_env, dc_id),
                                  dc_vm_count + 1)]]]

\* flat_to_hierarchical_actions naming the agents from 1
flat_to_hierarchical_actions_from_one(flat_actions) ==
    LET named == {i \in DcIds : local_agent(i + 1) \in DOMAIN flat_actions} IN
    Action(IF global_agent \in DOMAIN flat_actions THEN "list" ELSE "other",
           IF global_agent \in DOMAIN flat_actions THEN flat_actions[global_agent] ELSE <<>>,
           0, "dict",
           [i \in named |-> flat_actions[local_agent(i + 1)]],
           FALSE)

\* flat_actions.get("global_agent") is None when the agent is missing, which
\* the core reads as a 'global' that is no list
flat_to_hierarchical_actions(flat_actions) ==
    LET named == {i \in DcIds : local_agent(i) \in DOMAIN flat_actions} IN
    Action(IF global_agent \in DOMAIN flat_actions THEN "list" ELSE "other",
           IF global_agent \in DOMAIN flat_actions THEN flat_actions[global_agent] ELSE <<>>,
           0, "dict",
           [i \in named |-> flat_actions[local_agent(i)]],
           FALSE)

hierarchical_to_flat_rewards(hierarchical_rewards) ==
    [a \in {global_agent} \cup {local_agent(d) : d \in DOMAIN hierarchical_rewards.local} |->
        IF a = global_agent
        THEN hierarchical_rewards.global
        ELSE hierarchical_rewards.local[a[2]]]

pz_reset(self, s, seed, script, cfg_ok, fault) ==
    LET o == reset(self.base_env, s, seed, script, cfg_ok, fault) IN
    IF o.raised # "none"
    THEN Outcome([self EXCEPT !.base_env = o.self], o.sim, o.raised, o.calls, None, None)
    ELSE LET observations == hierarchical_to_flat_observations(o.self, o.ret) IN
         Outcome([base_env |-> o.self, last_observations |-> observations],
                 o.sim, "none", o.calls, None, observations)

\* pz_step taking the masks from the core as it was before the step
pz_step_stale_masks(self, s, flat_actions, fault) ==
    LET hierarchical_actions == flat_to_hierarchical_actions(flat_actions)
        o == step(self.base_env, s, hierarchical_actions, fault)
    IN  IF o.raised # "none"
        THEN Outcome([self EXCEPT !.base_env = o.self], o.sim, o.raised, o.calls,
                     o.sent, None)
        ELSE LET observations ==
                    [hierarchical_to_flat_observations(o.self, o.ret.observations)
                        EXCEPT !.agents = [a \in DOMAIN @ |->
                            [@[a] EXCEPT !.action_mask =
                                hierarchical_to_flat_observations(
                                    self.base_env, o.ret.observations).agents[a].action_mask]]]
             IN  Outcome([base_env |-> o.self, last_observations |-> observations],
                         o.sim, "none", o.calls, o.sent,
                         [observations |-> observations,
                          rewards      |-> hierarchical_to_flat_rewards(o.ret.rewards),
                          terminations |-> [a \in possible_agents |-> o.ret.terminated],
                          truncations  |-> [a \in possible_agents |-> o.ret.truncated]])

pz_step(self, s, flat_actions, fault) ==
    LET hierarchical_actions == flat_to_hierarchical_actions(flat_actions)
        o == step(self.base_env, s, hierarchical_actions, fault)
    IN  IF o.raised # "none"
        THEN Outcome([self EXCEPT !.base_env = o.self], o.sim, o.raised, o.calls,
                     o.sent, None)
        ELSE LET observations == hierarchical_to_flat_observations(o.self, o.ret.observations)
             IN  Outcome([base_env |-> o.self, last_observations |-> observations],
                         o.sim, "none", o.calls, o.sent,
                         [observations |-> observations,
                          rewards      |-> hierarchical_to_flat_rewards(o.ret.rewards),
                          terminations |-> [a \in possible_agents |-> o.ret.terminated],
                          truncations  |-> [a \in possible_agents |-> o.ret.truncated]])

\* the values of a dict as _flatten_observation tells them apart: numpy
\* arrays, numbers, and anything else (here: a nested dict)
ArrayValue(values) == [kind |-> "array", values |-> values]
NumberValue(v) == [kind |-> "number", values |-> <<v>>]
DictValue == [kind |-> "dict", values |-> <<>>]

\* every key of the dicts in question, as sorted() orders them
KeysInOrder ==
    <<"action_mask", "next_cloudlet_pes", "observation", "upcoming_cloudlets_count",
      "vm_available_pes", "waiting_cloudlets">>

\* _flatten_observation from the i-th key on: arrays and numbers are
\* taken, values of any other type are passed over
RECURSIVE flatten_from(_, _)
flatten_from(obs, i) ==
    IF i > Len(KeysInOrder) THEN <<>>
    ELSE (IF KeysInOrder[i] \in DOMAIN obs /\ obs[KeysInOrder[i]].kind \in {"array", "number"}
          THEN obs[KeysInOrder[i]].values ELSE <<>>)
         \o flatten_from(obs, i + 1)

flatten_observation(obs) == flatten_from(obs, 1)

\* astype(np.float32) of a boolean mask
mask_as_float(mask) == [k \in 1 .. Len(mask) |-> IF mask[k] THEN 1 ELSE 0]

\* self._last_observations.get(agent, {}): the dict reset() and step()
\* stored for the agent, {"observation": ...} for the global agent and
\* {"observation": ..., "action_mask": ...} for a local one
stored_agent_entry(self, agent) ==
    IF agent = global_agent
    THEN [k \in {"observation"} |-> DictValue]
    ELSE IF agent \notin DOMAIN self.last_observations.agents THEN <<>>
    ELSE [k \in {"observation", "action_mask"} |->
            IF k = "observation" THEN DictValue
            ELSE ArrayValue(mask_as_float(self.last_observations.agents[agent].action_mask))]

\* the local agents' parts of state(), from datacenter i on
RECURSIVE state_of_locals(_, _)
state_of_locals(self, i) ==
    IF i >= num_datacenters THEN <<>>
    ELSE flatten_observation(stored_agent_entry(self, local_agent(i)))
         \o state_of_locals(self, i + 1)

\* state()
pz_state(self) ==
    IF ~self.last_observations.attr THEN <<>>
    ELSE flatten_observation(stored_agent_entry(self, global_agent))
         \o state_of_locals(self, 0)

\* the mask, or no mask (None in the code): some = FALSE
NoMask == [some |-> FALSE, mask |-> <<>>]

get_action_mask(self, agent) ==
    IF agent = global_agent THEN NoMask
    ELSE IF ~self.last_observations.attr THEN NoMask
    ELSE IF agent[1] # "local_agent" THEN NoMask
    ELSE [some |-> TRUE, mask |-> get_local_action_masks(self.base_env, agent[2])]

(***************************************************************************)
(* The joint-training adapter (JointTrainingEnv)                            *)
(***************************************************************************)
NoEpisodeReward == [global |-> 0, local |-> [i \in DcIds |-> 0]]

NewJt(counts) ==
    [base_env |-> NewCore(counts), current_step |-> 0, episode_reward |-> NoEpisodeReward]

\* a reset() that keeps the tallies of the episode before
jt_reset_keeping_tallies(self, s, seed, script, cfg_ok, fault) ==
    LET o == reset(self.base_env, s, seed, script, cfg_ok, fault) IN
    Outcome([self EXCEPT !.base_env = o.self], o.sim, o.raised, o.calls, None,
            IF o.raised # "none" THEN None ELSE o.ret)

jt_reset(self, s, seed, script, cfg_ok, fault) ==
    LET o == reset(self.base_env, s, seed, script, cfg_ok, fault) IN
    IF o.raised # "none"
    THEN Outcome([self EXCEPT !.base_env = o.self], o.sim, o.raised, o.calls, None, None)
    ELSE Outcome([base_env |-> o.self, current_step |-> 0,
                  episode_reward |-> NoEpisodeReward],
                 o.sim, "none", o.calls, None, o.ret)

\* the sum of the values of a dict
RECURSIVE SumOver(_)
SumOver(f) ==
    IF DOMAIN f = {} THEN 0
    ELSE LET k == CHOOSE k \in DOMAIN f : TRUE
         IN  f[k] + SumOver([j \in DOMAIN f \ {k} |-> f[j]])

\* numbers that need not be whole are fractions num / den with den > 0
Whole(n) == [num |-> n, den |-> 1]

\* np.mean(list(values.values())) of a dict that is not empty
mean(values) == [num |-> SumOver(values), den |-> Cardinality(DOMAIN values)]

\* n + q for a whole number n
plus(n, q) == [num |-> n * q.den + q.num, den |-> q.den]

\* a reward info whose total adds up the local rewards instead of their mean
step_reward_info_summing(rewards) ==
    [global_reward |-> rewards.global,
     local_reward  |-> Whole(SumOver(rewards.local)),
     total_reward  |-> Whole(rewards.global + SumOver(rewards.local))]

\* the per-step reward entries step() adds to info
step_reward_info(rewards) ==
    IF DOMAIN rewards.local # {}
    THEN [global_reward |-> rewards.global,
          local_reward  |-> mean(rewards.local),
          total_reward  |-> plus(rewards.global, mean(rewards.local))]
    ELSE [global_reward |-> rewards.global,
          local_reward  |-> Whole(0),
          total_reward  |-> Whole(rewards.global)]

\* actions: the keys of the dict and what the core reads under them
jt_step(self, s, actions, fault) ==
    IF ~({"global", "local"} \subseteq actions.keys)
    THEN Outcome(self, s, "ValueError", <<>>, None, None)
    ELSE
    LET o == step(self.base_env, s, actions.action, fault) IN
    IF o.raised # "none"
    THEN Outcome([self EXCEPT !.base_env = o.self], o.sim, o.raised, o.calls, o.sent, None)
    ELSE Outcome(
            [base_env |-> o.self,
             current_step |-> self.current_step + 1,
             episode_reward |->
                [global |-> self.episode_reward.global + o.ret.rewards.global,
                 local  |-> [i \in DcIds |->
                                self.episode_reward.local[i] + o.ret.rewards.local[i]]]],
            o.sim, "none", o.calls, o.sent,
            [observations |-> o.ret.observations, rewards |-> o.ret.rewards,
             terminated |-> o.ret.terminated, truncated |-> o.ret.truncated,
             info |-> step_reward_info(o.ret.rewards)])

\* the fallback of the code (all ones when the core raises) is never taken:
\* get_local_action_masks catches what it raises
get_action_masks(self) ==
    [global |-> None,
     local  |-> [dc_id \in DcIds |-> get_local_action_masks(self.base_env, dc_id)]]

(***************************************************************************)
(* SpecPair: the two adapters side by side over datacenters of different    *)
(* sizes (ScenarioConfig), each on a core and a simulator of its own,       *)
(* given the same seed and the same decisions; the simulators               *)
(* being the same deterministic program, a remote call that fails for one   *)
(* fails for the other.                                                     *)
(***************************************************************************)
\* a decision: the global batch and the local action of every datacenter;
\* has_global = FALSE is a decision without a global batch
Decisions(counts) ==
    {[has_global |-> TRUE, global |-> g, local |-> l] :
        g \in GlobalLists, l \in LocalMaps(counts)}
    \cup {[has_global |-> FALSE, global |-> <<>>, local |-> <<>>]}

\* the decision as the PettingZoo adapter takes it
PzActions(decision) ==
    [a \in (IF decision.has_global THEN {global_agent} ELSE {})
           \cup {local_agent(d) : d \in DOMAIN decision.local} |->
        IF a = global_agent THEN decision.global ELSE decision.local[a[2]]]

\* the decision as the joint-training adapter takes it
JtActions(decision) ==
    [keys   |-> (IF decision.has_global THEN {"global"} ELSE {}) \cup {"local"},
     action |-> WellFormed(decision.global, decision.local)]

PairIdle == pair_out.op = "idle"

\* what one adapter did in the latest call
Did(o) == [raised |-> o.raised, calls |-> o.calls, sent |-> o.sent, ret |-> o.ret]

coreVars == <<env, sim, last_call, cls, held, wind>>

InitPair ==
    /\ env = NewCore(ScenarioConfig) /\ sim = SimOff
    /\ last_call = NoCall /\ hist = NoHist
    /\ pz = NewPz(ScenarioConfig) /\ jt = NewJt(ScenarioConfig)
    /\ pz_sim = SimOff /\ jt_sim = SimOff
    /\ pair_out = NoPair
    /\ cls = NewClass
    /\ held = NoHeld
    /\ wind = NoWind

PairReset(seed, fault) ==
    LET script == Script(0, "net_call", "ok")
        p == pz_reset(pz, pz_sim, seed, script, TRUE, fault)
        j == jt_reset(jt, jt_sim, seed, script, TRUE, fault)
    IN  /\ PairIdle
        /\ pz' = p.self /\ pz_sim' = p.sim
        /\ jt' = j.self /\ jt_sim' = j.sim
        /\ pair_out' = [op |-> "reset", arg |-> seed, pz |-> Did(p), jt |-> Did(j)]
        /\ hist' = JtHistAfterReset(hist, j)
        /\ UNCHANGED coreVars

PairStep(decision, fault) ==
    LET p == pz_step(pz, pz_sim, PzActions(decision), fault)
        j == jt_step(jt, jt_sim, JtActions(decision), fault)
    IN  /\ PairIdle
        /\ pz_sim.t < MaxSteps /\ jt_sim.t < MaxSteps
        /\ jt.current_step < MaxSteps
        /\ pz' = p.self /\ pz_sim' = p.sim
        /\ jt' = j.self /\ jt_sim' = j.sim
        /\ pair_out' = [op |-> "step", arg |-> decision, pz |-> Did(p), jt |-> Did(j)]
        /\ hist' = JtHistAfterStep(hist, j)
        /\ UNCHANGED coreVars

PzMaskQuery(agent) ==
    /\ PairIdle
    /\ pair_out' = [op |-> "pz_mask", arg |-> agent,
                    pz |-> get_action_mask(pz, agent), jt |-> None]
    /\ UNCHANGED <<pz, pz_sim, jt, jt_sim, hist, coreVars>>

PzStateQuery ==
    /\ PairIdle
    /\ pair_out' = [op |-> "pz_state", arg |-> None, pz |-> pz_state(pz), jt |-> None]
    /\ UNCHANGED <<pz, pz_sim, jt, jt_sim, hist, coreVars>>

\* reset() or step() has returned on both adapters and the caller has not
\* taken up anything else
PairCallReturned ==
    /\ pair_out.op \in {"reset", "step"}
    /\ pair_out.pz.raised = "none" /\ pair_out.jt.raised = "none"

\* the observations the latest call returned to the joint-training caller
ReturnedObservations ==
    IF pair_out.op = "reset" THEN pair_out.jt.ret ELSE pair_out.jt.ret.observations

\* get_action_masks() right after a reset() or step() that returned
JtMaskQuery ==
    /\ PairCallReturned
    /\ pair_out' = [op |-> "jt_masks", arg |-> ReturnedObservations,
                    pz |-> None, jt |-> get_action_masks(jt)]
    /\ UNCHANGED <<pz, pz_sim, jt, jt_sim, hist, coreVars>>

PairReturn ==
    /\ ~PairIdle
    /\ pair_out' = NoPair
    /\ UNCHANGED <<pz, pz_sim, jt, jt_sim, hist, coreVars>>

\* a reset() that fails is one whose reset RPC fails: both adapters treat
\* every failure of the core's reset() alike
NextPair ==
    \/ \E seed \in SeedArgs : PairReset(seed, "ok")
    \/ PairReset(NoSeed, "rpc")
    \/ \E decision \in Decisions(pz.base_env.dc_vm_counts), fault \in StepFaults :
          PairStep(decision, fault)
    \/ \E agent \in possible_agents : PzMaskQuery(agent)
    \/ PzStateQuery
    \/ JtMaskQuery
    \/ PairReturn

SpecPair == InitPair /\ [][NextPair]_vars

(***************************************************************************)
(* Claims on the adapters                                                  *)
(***************************************************************************)
PairStepped == pair_out.op = "step"
PairStepReturned == PairStepped /\ pair_out.pz.raised = "none"

\* C1: given the same seed and the same decisions, at every step the two
\* adapters make the same remote calls with the same payload (global list,
\* local target-VM map), both return or both raise, and when they return
\* their terminated/truncated flags, global reward and per-datacenter
\* rewards are the same; their simulators stay in the same state.
C1_SameTransitions ==
    /\ pz_sim = jt_sim
    /\ PairStepped =>
          /\ pair_out.pz.calls = pair_out.jt.calls
          /\ (pair_out.pz.raised = "none") = (pair_out.jt.raised = "none")
          /\ Len(pair_out.pz.calls) = 2 => pair_out.pz.sent = pair_out.jt.sent
          /\ pair_out.pz.raised = "none" =>
                /\ \A a \in possible_agents :
                      /\ pair_out.pz.ret.terminations[a] = pair_out.jt.ret.terminated
                      /\ pair_out.pz.ret.truncations[a] = pair_out.jt.ret.truncated
                /\ pair_out.pz.ret.rewards[global_agent] = pair_out.jt.ret.rewards.global
                /\ \A d \in DcIds :
                      pair_out.pz.ret.rewards[local_agent(d)]
                          = pair_out.jt.ret.rewards.local[d]

\* the second step of an episode: a batch and a VM for every datacenter sent
C1_Witness ==
    /\ PairStepReturned
    /\ pz.base_env.current_step = 2 /\ jt.current_step = 2
    /\ Len(pair_out.pz.sent.global) >= 1
    /\ DOMAIN pair_out.pz.sent.local = DcIds
    /\ pair_out.pz.sent.local[num_datacenters - 1] >= 0
    /\ pair_out.jt.ret.rewards.global > 0
    /\ pair_out.jt.ret.terminated \/ pair_out.jt.ret.truncated

\* C10: the mask get_action_mask returns for local_agent_d has length
\* vm_count_d + 1, the size of that agent's action space.
C10_MaskLength ==
    (pair_out.op = "pz_mask" /\ pair_out.pz.some) =>
        Len(pair_out.pz.mask) = pz_action_space_n(pz.base_env.dc_vm_counts, pair_out.arg[2])

\* the mask of datacenter d as its local observation local_obs decides it
MaskOf(counts, d, local_obs) ==
    MaskFromObservation(local_obs, get_dc_vm_count(counts, d), local_action_space_n(counts))

\* the observations the latest call returned to the PettingZoo caller
PzReturnedObservations ==
    IF pair_out.op = "reset" THEN pair_out.pz.ret ELSE pair_out.pz.ret.observations

\* C11: after every reset() or step() that returned, the action_mask in each
\* PettingZoo local agent's observation is the mask of the local observation
\* in that same observation (cut to vm_count + 1), and get_action_masks() of
\* the joint-training adapter, asked before the next call, gives for each
\* datacenter the mask of the local observation that call returned.
C11_MaskOfSameCall ==
    /\ PairCallReturned =>
          \A d \in DcIds :
              LET counts == pz.base_env.dc_vm_counts
                  o == PzReturnedObservations.agents[local_agent(d)]
              IN  o.action_mask
                      = Take(MaskOf(counts, d, o.observation), counts[d] + 1)
    /\ pair_out.op = "jt_masks" =>
          \A d \in DcIds :
              pair_out.jt.local[d]
                  = MaskOf(jt.base_env.dc_vm_counts, d, pair_out.arg.local[d])

\* the masks after the second step of an episode, one datacenter with an
\* empty queue and one with a job waiting
C11_Witness ==
    /\ pair_out.op = "jt_masks"
    /\ jt.current_step = 2
    /\ pair_out.jt.local[0][1] /\ ~pair_out.jt.local[num_datacenters - 1][1]
    /\ pz.last_observations.agents[local_agent(num_datacenters - 1)].action_mask
          = Take(pair_out.jt.local[num_datacenters - 1],
                 pz.base_env.dc_vm_counts[num_datacenters - 1] + 1)

\* the cores that differ from self in the cached observations of the
\* datacenters other than d alone: any of them may be missing from the
\* result, and those it holds may have any observation of the simulator
AgreeingCores(self, d) ==
    LET counts == self.dc_vm_counts
        Others(D) ==
            {o \in [D -> UNION {RawLocalObservations(k) : k \in 0 .. MaxVms}] :
                \A e \in D : Len(o[e].vm_available_pes) = counts[e]}
    IN  UNION {{[self EXCEPT !.last_observations.local =
                    [e \in D \cup {d} |->
                        IF e = d THEN self.last_observations.local[d]
                        ELSE convert_local_observation(counts, e, o[e])]] :
                o \in Others(D)} :
               D \in SUBSET (DcIds \ {d})}

\* C12: two cores that differ in nothing but the cached observations of the
\* datacenters other than d (so their cached observations agree on d) return
\* the same mask for d, whatever those other observations are and whether
\* the other datacenters are in the result at all.
C12_MaskIsLocal ==
    MaskOfCached =>
        \A other \in AgreeingCores(env, last_call.arg) :
            get_local_action_masks(other, last_call.arg) = last_call.ret

\* a job waits in the queried datacenter, none in another one, and a core
\* where that other datacenter has a job waiting gets the same mask
C12_Witness ==
    /\ MaskOfCached /\ env.java_env /\ JobWaiting(QueriedObs)
    /\ last_call.arg = 1
    /\ 0 \in DOMAIN env.last_observations.local
    /\ env.last_observations.local[0].waiting_cloudlets = 0
    /\ \E other \in AgreeingCores(env, 1) :
          /\ 0 \in DOMAIN other.last_observations.local
          /\ JobWaiting(other.last_observations.local[0])
          /\ get_local_action_masks(other, 1) = last_call.ret
    /\ \E k \in MaskIndices : ~MaskAt(k)

\* the core holds no cached observation for datacenter dc_id
NoCachedObservation(dc_id) ==
    \/ ~env.last_observations.attr
    \/ dc_id \notin DOMAIN env.last_observations.local

\* C13: a mask query for a dc_id outside [0, num_datacenters), or for a
\* datacenter without a cached observation, returns without raising a mask
\* of local_action_space.n entries that are all True, wherever in the
\* lifecycle it is made.
C13_FailOpen ==
    (MaskReturned /\ (last_call.arg \notin DcIds \/ NoCachedObservation(last_call.arg)))
        => /\ last_call.raised = "none"
           /\ Len(last_call.ret) = local_action_space_n(env.dc_vm_counts)
           /\ \A k \in MaskIndices : MaskAt(k)

\* a connected core whose reset() failed while parsing holds no observation
C13_Witness ==
    /\ MaskReturned
    /\ env.java_env /\ ~env.last_observations.attr
    /\ last_call.arg \in DcIds
    /\ last_call.ret = AllTrue(MaxVms + 1)

\* the action of the latest step() is malformed: 'global' is no list,
\* 'local' is no dict, or an element cannot be read as an integer
MalformedStep ==
    /\ last_call.op = "step"
    /\ \/ last_call.arg.action.gk # "list"
       \/ last_call.arg.action.lk # "dict"
       \/ last_call.arg.action.l_bad
       \/ last_call.arg.action.g_bad # 0

\* C14: a step() on a connected core with a malformed action raises a
\* ValueError and has made no remote call at all.
C14_RejectedBeforeAnyCall ==
    (MalformedStep /\ env.java_env) =>
        /\ last_call.raised \in {"ValueError", "ValueError:uncaught"}
        /\ last_call.calls = <<>>

\* a remote call of the latest step() failed: the waiting-count query it
\* made, or the step RPC it made
RemoteCallFailed ==
    /\ last_call.op = "step"
    /\ \/ last_call.arg.fault = "query" /\ Len(last_call.calls) >= 1
       \/ last_call.arg.fault = "rpc" /\ Len(last_call.calls) = 2

\* C15: a step() in which a remote call failed raises: it returns no result.
C15_FailureSurfaced == RemoteCallFailed => last_call.raised # "none"

\* the attempts of the latest reset() and the errors that make it retry
ConnectOf == last_call.arg.connect

NetworkErrors == {"net_ctor", "net_call"}

CallsMade == {last_call.calls[i] : i \in 1 .. Len(last_call.calls)}

FirstCall(name) ==
    CHOOSE i \in 1 .. Len(last_call.calls) : last_call.calls[i] = name

\* C17: a core that holds the simulator handle has sent configureSimulation
\* exactly once over its connection, with success; a reset() that
\* establishes a connection sends it once, before its reset RPC, and a
\* reset() on an established connection does not send it again; when
\* configure fails, reset() raises with gateway and handle cleared and no
\* reset RPC sent; every reset, count and step RPC goes over a connection
\* that was configured.
C17_ConfiguredOnce ==
    /\ env.java_env => hist.conn = ConfiguredConn
    /\ last_call.op = "reset" =>
          LET n == Len(ConnectOf.made)
              established == n > 0 /\ ConnectOf.made[n] = "ok"
              sent == Cardinality({i \in 1 .. Len(last_call.calls) :
                                     last_call.calls[i] = "configureSimulation"})
          IN  /\ sent = (IF established THEN 1 ELSE 0)
              /\ {"configureSimulation", "reset"} \subseteq CallsMade =>
                     FirstCall("configureSimulation") < FirstCall("reset")
    /\ (last_call.op = "reset" /\ last_call.raised = "RuntimeError:configure") =>
          /\ ~env.gateway /\ ~env.java_env
          /\ "reset" \notin CallsMade
    /\ (last_call.op \in {"reset", "step"}
          /\ CallsMade \cap {"reset", "step", "getGlobalWaitingCloudletsCount"} # {}) =>
          hist.conn = ConfiguredConn

\* a reset() that established a connection on which configure failed
C17_Witness ==
    /\ last_call.op = "reset"
    /\ Len(ConnectOf.made) > 0
    /\ ConnectOf.made[Len(ConnectOf.made)] = "ok"
    /\ last_call.calls = <<"configureSimulation">>
    /\ last_call.raised = "RuntimeError:configure"
    /\ ~env.gateway /\ ~env.java_env

\* vectors of length k that hold the fill value of the core (0) nowhere
VectorsOfLength(k) == [1 .. k -> 1 .. (MaxPes + 1)]

\* padding to every shared maximum and cutting back, for every vector
PadTrimRoundTrip ==
    \A k \in 0 .. MaxVms : \A m \in k .. MaxVms : \A v \in VectorsOfLength(k) :
        LET padded  == pad_vector(v, m, 0)
            trimmed == Take(padded, k)
        IN  /\ Len(padded) = m
            /\ Len(trimmed) = k
            /\ \A i \in 1 .. k : trimmed[i] = v[i] /\ trimmed[i] # 0

\* the simulator's vector of datacenter d behind the latest observation,
\* the core's padded copy of it and the local agent's copy
SimVector(d) == SimRawLocal(pz.base_env.dc_vm_counts, pz_sim, d).vm_available_pes

PaddedVector(d) == pz.base_env.last_observations.local[d].vm_available_pes

AgentVector(d) ==
    PzReturnedObservations.agents[local_agent(d)].observation.vm_available_pes

\* C18: padding a vector of length k to any shared maximum m >= k and
\* cutting it back to k gives the vector again; after every reset() and
\* step() that returned, the core holds each datacenter's vector padded to
\* max_vms and the PettingZoo local agent's vector has the datacenter's
\* length vm_count and equals the simulator's vector at every index.
C18_PadTrimRoundTrip ==
    /\ PadTrimRoundTrip
    /\ PairCallReturned =>
          \A d \in DcIds :
              LET k == pz.base_env.dc_vm_counts[d] IN
              /\ Len(SimVector(d)) = k
              /\ Len(PaddedVector(d)) = max_vms(pz.base_env.dc_vm_counts)
              /\ Len(AgentVector(d)) = k
              /\ \A i \in 1 .. k : AgentVector(d)[i] = SimVector(d)[i]

\* a datacenter smaller than the shared maximum whose vector holds a value
\* that is not the fill value of the core
C18_Witness ==
    /\ PairCallReturned
    /\ pair_out.op = "step"
    /\ \E d \in DcIds :
          /\ pz.base_env.dc_vm_counts[d] < max_vms(pz.base_env.dc_vm_counts)
          /\ Len(PaddedVector(d)) > Len(AgentVector(d))
          /\ \E i \in 1 .. Len(AgentVector(d)) :
                AgentVector(d)[i] # 0 /\ AgentVector(d)[i] = SimVector(d)[i]

\* the fraction q is the whole number n plus the mean of the values of f
IsGlobalPlusMean(q, n, f) ==
    /\ q.den > 0
    /\ q.num * Cardinality(DOMAIN f) = (n * Cardinality(DOMAIN f) + SumOver(f)) * q.den

\* the rewards a step may have: local rewards of any subset of datacenters
RewardsOfAStep ==
    UNION {[global : 0 .. MaxBatch, local : [D -> -1 .. MaxVms]] : D \in SUBSET DcIds}

\* the reward entries for every such reward, the one without local rewards
\* included
RewardInfoOfEvery ==
    \A r \in RewardsOfAStep :
        LET info == step_reward_info(r) IN
        /\ info.global_reward = r.global
        /\ IF DOMAIN r.local = {}
           THEN info.total_reward = Whole(r.global)
           ELSE IsGlobalPlusMean(info.total_reward, r.global, r.local)

JtStepReturned == PairStepped /\ pair_out.jt.raised = "none"

\* C19: after every step() of the joint-training adapter that returns,
\* info['total_reward'] is that step's global reward plus the arithmetic
\* mean of that step's local rewards, and it is the global reward alone for
\* a step without local rewards.
C19_TotalReward ==
    /\ RewardInfoOfEvery
    /\ JtStepReturned =>
          LET r == pair_out.jt.ret.rewards
              info == pair_out.jt.ret.info
          IN  /\ info.global_reward = r.global
              /\ IF DOMAIN r.local = {}
                 THEN info.total_reward = Whole(r.global)
                 ELSE IsGlobalPlusMean(info.total_reward, r.global, r.local)

\* a step with a global reward and local rewards whose mean is not their sum
C19_Witness ==
    /\ JtStepReturned
    /\ pair_out.jt.ret.rewards.global > 0
    /\ SumOver(pair_out.jt.ret.rewards.local) # 0
    /\ pair_out.jt.ret.info.total_reward.den = num_datacenters

\* the tallies of the joint-training adapter are those of t
JtTalliesAre(t) ==
    /\ jt.current_step = t.steps
    /\ jt.episode_reward.global = t.global
    /\ \A d \in DcIds : jt.episode_reward.local[d] = t.local[d]

\* C20 as stated: every reset() leaves the tallies at zero, so that they
\* count from the last reset() that was called.
C20_AsStated == pair_out.op = "reset" => JtTalliesAre(JtTally)

\* C20: after any sequence of reset() and step() calls on the joint-training
\* adapter, current_step is the number of steps that returned since the
\* last reset() that returned, episode_reward['global'] the sum of their
\* global rewards and episode_reward['local'][d] the sum of datacenter d's
\* local rewards; a reset() that returns leaves all of them at zero, and a
\* reset() that raises leaves them as they were.
C20_EpisodeTallies ==
    /\ JtTalliesAre(hist.jt)
    /\ (pair_out.op = "reset" /\ pair_out.jt.raised = "none") => JtTalliesAre(JtTally)

\* the tallies after two steps with rewards on both levels
C20_Witness ==
    /\ JtStepReturned
    /\ jt.current_step = 2
    /\ jt.episode_reward.global > pair_out.jt.ret.rewards.global
    /\ \E d \in DcIds :
          /\ pair_out.jt.ret.rewards.local[d] # 0
          /\ jt.episode_reward.local[d] # pair_out.jt.ret.rewards.local[d]

C27_HandlesPaired == env.gateway = env.java_env

\* the observation o of a datacenter with k VMs, with any values in the
\* padded part of its vector
PaddingVariants(o, k) ==
    {[o EXCEPT !.vm_available_pes = w] :
        w \in {v \in [1 .. Len(o.vm_available_pes) -> 0 .. MaxPes] :
                  \A i \in 1 .. k : v[i] = o.vm_available_pes[i]}}

\* C30: for a datacenter with fewer VMs than max_vms, a mask that a
\* connected core computes from the cached observation is False at every
\* index above the datacenter's vm_count, and stays so whatever values the
\* padded part of the cached vector holds.
C30_NoVmBeyondCount ==
    (MaskOfCached /\ env.java_env /\ QueriedVmCount < max_vms(env.dc_vm_counts)) =>
        \A k \in MaskIndices :
            k > QueriedVmCount =>
                /\ ~MaskAt(k)
                /\ \A o \in PaddingVariants(QueriedObs, QueriedVmCount) :
                      ~get_local_action_masks(
                          [env EXCEPT !.last_observations.local[last_call.arg] = o],
                          last_call.arg)[k + 1]

\* a job waits in a datacenter smaller than max_vms: its last VM is
\* allowed, the index after it is not
C30_Witness ==
    /\ MaskOfCached /\ env.java_env /\ JobWaiting(QueriedObs)
    /\ QueriedVmCount > 0
    /\ QueriedVmCount < max_vms(env.dc_vm_counts)
    /\ MaskAt(QueriedVmCount)
    /\ ~MaskAt(QueriedVmCount + 1)

(***************************************************************************)
(* SpecShared: two core instances of one process, both on the gateway of   *)
(* the same simulator                                                      *)
(***************************************************************************)
Instances == {1, 2}

InitShared ==
    /\ env = [i \in Instances |-> NewCore(ScenarioConfig)]
    /\ sim = SimOff
    /\ last_call = NoCall
    /\ hist = NoHist
    /\ pz = NoAdapter /\ pz_sim = SimOff
    /\ jt = NoAdapter /\ jt_sim = SimOff
    /\ pair_out = NoPair
    /\ cls = NewClass
    /\ held = NoHeld
    /\ wind = NoWind

SharedReset(i, seed) ==
    LET o == reset(env[i], sim, seed, Script(0, "net_call", "ok"), TRUE, "ok") IN
    /\ Idle
    /\ env' = [env EXCEPT ![i] = o.self]
    /\ sim' = o.sim
    /\ last_call' = Call("reset", i, SimWaitingCount(sim), o)
    /\ UNCHANGED <<hist, adapterVars>>

SharedStep(i, action) ==
    LET o == step(env[i], sim, action, "ok") IN
    /\ Idle
    /\ sim.t < MaxSteps /\ env[i].current_step < MaxSteps
    /\ env' = [env EXCEPT ![i] = o.self]
    /\ sim' = o.sim
    /\ last_call' = Call("step", i, SimWaitingCount(sim), o)
    /\ UNCHANGED <<hist, adapterVars>>

\* close() reads and writes no class attribute
SharedClose(i) ==
    LET o == close(env[i], sim) IN
    /\ Idle
    /\ env' = [env EXCEPT ![i] = o.self]
    /\ sim' = o.sim
    /\ last_call' = Call("close", i, SimWaitingCount(sim), o)
    /\ UNCHANGED <<hist, adapterVars>>

NextShared ==
    \/ \E i \in Instances, seed \in SeedArgs : SharedReset(i, seed)
    \/ \E i \in Instances, action \in RoutingActions : SharedStep(i, action)
    \/ \E i \in Instances : SharedClose(i)
    \/ Return

SpecShared == InitShared /\ [][NextShared]_vars

\* instance i has been closed after a reset() that returned: it holds no
\* gateway and still has the observation of its episode
WasClosed(i) == ~env[i].gateway /\ env[i].last_observations.attr

\* C23: a close() of any instance leaves the class flag _java_gateway_closed
\* set, and the close() of an instance, once another instance has been
\* closed, does not issue the remote close again.
C23_ClosedFlagSetOnce ==
    last_call.op = "close" =>
        /\ cls.java_gateway_closed
        /\ (\E j \in Instances \ {last_call.arg} : WasClosed(j))
              => "close" \notin CallsMade

\* the observation of an agent, entry by entry
ObservationEntries(agent) ==
    IF agent = global_agent
    THEN [k \in {"upcoming_cloudlets_count"} |->
            NumberValue(pz.last_observations.global.upcoming_cloudlets_count)]
    ELSE LET o == pz.last_observations.agents[agent].observation IN
         [k \in {"next_cloudlet_pes", "vm_available_pes", "waiting_cloudlets"} |->
            IF k = "vm_available_pes" THEN ArrayValue(o.vm_available_pes)
            ELSE IF k = "next_cloudlet_pes" THEN NumberValue(o.next_cloudlet_pes)
            ELSE NumberValue(o.waiting_cloudlets)]

\* every value of every agent's observation: the global agent first, then
\* the local agents by index, each by sorted key
RECURSIVE ObservationsFrom(_)
ObservationsFrom(i) ==
    IF i >= num_datacenters THEN <<>>
    ELSE (IF local_agent(i) \in DOMAIN pz.last_observations.agents
          THEN flatten_observation(ObservationEntries(local_agent(i))) ELSE <<>>)
         \o ObservationsFrom(i + 1)

AllObservationValues ==
    flatten_observation(ObservationEntries(global_agent)) \o ObservationsFrom(0)

\* C24: after a reset() or step() that returned, state() is the vector of
\* every value of every agent's current observation, by agent index and
\* sorted key; its length is the number of observation entries.
C24_StateHoldsObservations ==
    (pair_out.op = "pz_state" /\ pz.last_observations.attr) =>
        /\ Len(pair_out.pz) = Len(AllObservationValues)
        /\ pair_out.pz = AllObservationValues

(***************************************************************************)
(* SpecSnap: a caller of the joint-training adapter that keeps the         *)
(* info['episode_reward'] of the first step() that returns                 *)
(***************************************************************************)
\* self.episode_reward.copy(): a new dict with the same two values, the
\* number under 'global' and the dict under 'local'
episode_reward_copy(self) ==
    [taken |-> TRUE, shares |-> TRUE,
     returned |-> self.episode_reward, now |-> self.episode_reward]

\* step() adds to self.episode_reward['local'][dc_id] in place and rebinds
\* self.episode_reward['global']
HeldAfterStep(h, o) ==
    IF o.raised # "none" THEN h
    ELSE IF ~h.taken THEN episode_reward_copy(o.self)
    ELSE IF h.shares THEN [h EXCEPT !.now.local = o.self.episode_reward.local]
    ELSE h

\* reset() binds self.episode_reward to a new dict
HeldAfterReset(h, o) ==
    IF o.raised # "none" THEN h ELSE [h EXCEPT !.shares = FALSE]

InitSnap ==
    /\ env = NewCore(ScenarioConfig) /\ sim = SimOff
    /\ last_call = NoCall /\ hist = NoHist
    /\ pz = NoAdapter /\ pz_sim = SimOff
    /\ jt = NewJt(ScenarioConfig) /\ jt_sim = SimOff
    /\ pair_out = NoPair
    /\ cls = NewClass
    /\ held = NoHeld
    /\ wind = NoWind

SnapReset(seed) ==
    LET j == jt_reset(jt, jt_sim, seed, Script(0, "net_call", "ok"), TRUE, "ok") IN
    /\ jt' = j.self /\ jt_sim' = j.sim
    /\ held' = HeldAfterReset(held, j)
    /\ UNCHANGED <<env, sim, last_call, hist, pz, pz_sim, pair_out, cls, wind>>

SnapStep(decision) ==
    LET j == jt_step(jt, jt_sim, JtActions(decision), "ok") IN
    /\ jt.base_env.java_env
    /\ jt_sim.t < MaxSteps /\ jt.current_step < MaxSteps
    /\ jt' = j.self /\ jt_sim' = j.sim
    /\ held' = HeldAfterStep(held, j)
    /\ UNCHANGED <<env, sim, last_call, hist, pz, pz_sim, pair_out, cls, wind>>

NextSnap ==
    \/ \E seed \in SeedArgs : SnapReset(seed)
    \/ \E decision \in Decisions(jt.base_env.dc_vm_counts) : SnapStep(decision)

SpecSnap == InitSnap /\ [][NextSnap]_vars

\* C28: the info['episode_reward'] a step() returned keeps the global and
\* local values it was returned with, whatever step() and reset() calls
\* follow.
C28_InfoIsSnapshot == held.taken => held.now = held.returned

(***************************************************************************)
(* SpecFlat: HierarchicalMultiDCWrapper in global mode over a core that    *)
(* reset() has connected, for every configuration of mixed sizes           *)
(***************************************************************************)
\* self.env.local_action_space.sample() for each datacenter: any value of
\* the shared space Discrete(max_vms + 1)
LocalSamples(counts) == [DcIds -> 0 .. (local_action_space_n(counts) - 1)]

\* the action step() of the wrapper builds in global mode
hierarchical_action(global_actions, local_actions) ==
    WellFormed(global_actions, local_actions)

FlatStep(global_actions, local_actions) ==
    Step(hierarchical_action(global_actions, local_actions), "ok")

NextFlat ==
    \/ \E global_actions \in GlobalLists, local_actions \in LocalSamples(env.dc_vm_counts) :
          FlatStep(global_actions, local_actions)
    \/ Return

SpecFlat == InitStep /\ [][NextFlat]_vars

\* C29: every step of the wrapper in global mode sends a local action for
\* every datacenter d, and the target VM id sent for d lies in
\* [-1, vm_count_d - 1].
C29_SampledActionsLegal ==
    StepSent =>
        /\ DOMAIN last_call.sent.local = DcIds
        /\ \A d \in DcIds :
              last_call.sent.local[d] \in (0 - 1) .. (env.dc_vm_counts[d] - 1)

(***************************************************************************)
(* SpecWind: WindPredictionWrapper around the core, for every set of       *)
(* loaded traces.  The wrapped environment's global observation is the     *)
(* core's (clock NoTime) or carries a 'simulation_time' entry (clock in    *)
(* SimTimes).                                                              *)
(***************************************************************************)
windFrame == <<last_call, hist, pz, pz_sim, jt, jt_sim, pair_out, cls, held>>

InitWind ==
    /\ env = NewCore(ScenarioConfig)
    /\ sim = SimOff
    /\ last_call = NoCall
    /\ hist = NoHist
    /\ pz = NoAdapter /\ pz_sim = SimOff
    /\ jt = NoAdapter /\ jt_sim = SimOff
    /\ pair_out = NoPair
    /\ cls = NewClass
    /\ held = NoHeld
    /\ \E loader \in Loaders :
          wind = [NoWind EXCEPT !.wrapper = NewWrapper(loader)]

WindReset(seed, fault) ==
    \E o \in {reset(env, sim, seed, Script(0, "net_call", "ok"), TRUE, fault)} :
    \E w \in {wrapper_reset(wind.wrapper, o)} :
        /\ env' = o.self
        /\ sim' = o.sim
        /\ wind' = [wind EXCEPT
                      !.wrapper = w.self,
                      !.out = [op |-> "reset", core_raised |-> o.raised,
                               raised |-> w.raised, obs |-> w.obs,
                               clock |-> NoTime, faults |-> NoFaults]]
        /\ UNCHANGED windFrame

WindStep(action, fault, clock, faults) ==
    \E o \in {step(env, sim, action, fault)} :
    \E w \in {wrapper_step(wind.wrapper, o, clock, faults)} :
        /\ sim.t < MaxSteps
        /\ wind.wrapper.prediction_service.current_step < MaxSteps
        /\ env' = o.self
        /\ sim' = o.sim
        /\ wind' = [wind EXCEPT
                      !.wrapper = w.self,
                      !.out = [op |-> "step", core_raised |-> o.raised,
                               raised |-> w.raised, obs |-> w.obs,
                               clock |-> clock, faults |-> faults]]
        /\ UNCHANGED windFrame

\* no routing decision, or one cloudlet routed to datacenter 0
WindActions == {WellFormed(<<>>, <<>>), WellFormed(<<0>>, <<>>)}

NextWind ==
    \/ \E seed \in Seeds : WindReset(seed, "ok")
    \/ WindReset(NoSeed, "rpc")
    \/ \E action \in WindActions, clock \in SimTimes \cup {NoTime},
          faults \in ModelFaults : WindStep(action, "ok", clock, faults)
    \/ WindStep(WellFormed(<<>>, <<>>), "rpc", NoTime, NoFaults)

SpecWind == InitWind /\ [][NextWind]_vars

\* the rows of datacenter d's trace that a forecast at time clock reads
HistoryRows(d, clock) ==
    LET last == (clock \div 2) + wind.wrapper.prediction_service.feature_loader.csv_start_offset
    IN  (last - history_length + 1) .. last

TraceOf(d) ==
    LET data == wind.wrapper.prediction_service.feature_loader.turbine_data
    IN  IF turbine_ids[d] \in DOMAIN data
        THEN turbine_rows(turbine_ids[d], data[turbine_ids[d]])
        ELSE <<>>

\* the trace holds every row of the history: not too early, not beyond it
HasHistory(d, clock) ==
    /\ clock # NoTime
    /\ \A i \in HistoryRows(d, clock) : i + 1 \in DOMAIN TraceOf(d)

\* what the model gives for that history, in W
ModelOutput(d, clock) ==
    LET first == (clock \div 2)
                   + wind.wrapper.prediction_service.feature_loader.csv_start_offset
                   - history_length + 1
        frames == [t \in 1 .. history_length |-> scaler_transform(TraceOf(d)[first + t])]
    IN  [k \in 1 .. prediction_horizon |->
            1000 * predict_from_frames(frames, prediction_horizon)[k]]

WindStepped == wind.out.op = "step" /\ wind.out.core_raised = "none"

ForecastRow(d) == wind.out.obs.global.dc_predicted_green_power_w[d]

\* C21: a step() of the wrapper whose wrapped step() returned raises
\* nothing, and the forecast row of every datacenter has prediction_horizon
\* entries and is all zeros or the model's whole output for the history at
\* the observation's time; it is all zeros when the trace does not hold that
\* history (time too early, time beyond the trace, no trace, no time).
C21_ForecastRows ==
    WindStepped =>
        /\ wind.out.raised = "none"
        /\ \A d \in DcIds :
              /\ Len(ForecastRow(d)) = prediction_horizon
              /\ IF HasHistory(d, wind.out.clock)
                 THEN ForecastRow(d) \in {zero_row, ModelOutput(d, wind.out.clock)}
                 ELSE ForecastRow(d) = zero_row

\* a step whose forecast has the model's output for one datacenter and
\* zeros for another whose trace is too short for the time
C21_Witness ==
    /\ WindStepped
    /\ wind.out.raised = "none"
    /\ wind.out.clock # NoTime
    /\ \E d, e \in DcIds :
          /\ HasHistory(d, wind.out.clock)
          /\ ForecastRow(d) = ModelOutput(d, wind.out.clock)
          /\ ForecastRow(d) # zero_row
          /\ turbine_ids[e] \in DOMAIN wind.wrapper.prediction_service.feature_loader.turbine_data
          /\ ~HasHistory(e, wind.out.clock)
          /\ ForecastRow(e) = zero_row

\* the simulator's clock, as a simulation time
CoreTime == 2 * sim.t

\* a step() of the wrapper around the core itself that returned, with a
\* model that works
CoreStepped ==
    /\ WindStepped
    /\ wind.out.raised = "none"
    /\ wind.out.clock = NoTime
    /\ wind.out.faults = NoFaults

\* C25: after a step() of the wrapper around the core, the forecast row of
\* every datacenter whose trace holds the history_length rows up to the
\* simulator's time is the model's output for those rows.
C25_ModelOutputInjected ==
    CoreStepped =>
        \A d \in DcIds :
            HasHistory(d, CoreTime) => ForecastRow(d) = ModelOutput(d, CoreTime)

(***************************************************************************)
(* SpecCache: the prediction service asked directly, by any number of      *)
(* observers, for the forecast of a datacenter at the time of its current  *)
(* step index                                                              *)
(***************************************************************************)
MaxQueries == 2     \* forecasts asked for one datacenter at one step index

InitCache ==
    /\ env = NewCore(ScenarioConfig)
    /\ sim = SimOff
    /\ last_call = NoCall
    /\ hist = NoHist
    /\ pz = NoAdapter /\ pz_sim = SimOff
    /\ jt = NoAdapter /\ jt_sim = SimOff
    /\ pair_out = NoPair
    /\ cls = NewClass
    /\ held = NoHeld
    /\ \E loader \in Loaders, clock \in SimTimes :
          wind = [NoWind EXCEPT !.wrapper = NewWrapper(loader),
                                !.tally.clock = clock]

TallyAfter(tally, dc_id, r) ==
    [tally EXCEPT
        !.asked[dc_id] = @ + 1,
        !.loads[dc_id] = IF r.loaded THEN @ + 1 ELSE @,
        !.calls[dc_id] = IF r.called THEN @ + 1 ELSE @,
        !.answers[dc_id] = @ \cup {r.ret}]

CachePredict(dc_id, fault) ==
    LET r == predict_future_power(wind.wrapper.prediction_service, dc_id,
                                  wind.tally.clock, fault)
    IN  /\ wind.tally.asked[dc_id] < MaxQueries
        /\ wind' = [wind EXCEPT
                      !.wrapper.prediction_service = r.self,
                      !.out = [op |-> "predict", dc_id |-> dc_id, ret |-> r.ret],
                      !.tally = TallyAfter(wind.tally, dc_id, r)]
        /\ UNCHANGED <<env, sim, windFrame>>

CacheStep(clock) ==
    /\ wind.wrapper.prediction_service.current_step < MaxSteps
    /\ wind' = [wind EXCEPT
                  !.wrapper.prediction_service = service_step(@),
                  !.out = [op |-> "step"],
                  !.tally = [NoTally EXCEPT !.clock = clock]]
    /\ UNCHANGED <<env, sim, windFrame>>

CacheReset(clock) ==
    /\ wind' = [wind EXCEPT
                  !.wrapper.prediction_service = service_reset(@),
                  !.out = [op |-> "reset"],
                  !.tally = [NoTally EXCEPT !.clock = clock]]
    /\ UNCHANGED <<env, sim, windFrame>>

NextCache ==
    \/ \E dc_id \in DcIds, fault \in {"ok", "model"} : CachePredict(dc_id, fault)
    \/ \E clock \in SimTimes : CacheStep(clock)
    \/ \E clock \in SimTimes : CacheReset(clock)

SpecCache == InitCache /\ [][NextCache]_vars

\* C22: of the forecasts asked for one datacenter at one step index of the
\* service, at most one loads the features and at most one calls the model,
\* and all of them return the same row.
C22_SingleComputed ==
    \A d \in DcIds :
        /\ wind.tally.loads[d] <= 1
        /\ wind.tally.calls[d] <= 1
        /\ Cardinality(wind.tally.answers[d]) <= 1

====
